---- MODULE Spec2Model ----
(***************************************************************************)
(* odecromancy: static dead-code detection for Odoo projects.              *)
(*                                                                         *)
(* The module models OdooAnalyzer (src/core.py), the registry values       *)
(* FieldValue / MethodValue / ModelValue (src/odecromancy/models.py) and   *)
(* the context-tracking walker FieldCollector                              *)
(* (src/odecromancy/visitors.py).                                          *)
(*                                                                         *)
(* Python objects are records.  A dict is a function together with the     *)
(* sequence of its keys in insertion order.  References to ModelValue      *)
(* objects are model names: the registry never replaces the object stored  *)
(* under a name (a re-declaration is merged into it with |=), so a         *)
(* reference always denotes the registry's entry of that name.             *)
(***************************************************************************)
EXTENDS Integers, Sequences, FiniteSets, TLC

VARIABLES
    python_file_paths,  \* OdooAnalyzer.python_file_paths: the source files, as parsed content
    xml_file_paths,     \* OdooAnalyzer.xml_file_paths: the declarative files, as parsed content
    definitions_map,    \* OdooAnalyzer.definitions_map: model name -> ModelValue
    map_order,          \* insertion order of the keys of definitions_map
    pc,                 \* position of the run: which loop of analyze() is executing
    idx,                \* number of files the current loop of analyze() has processed
    error,              \* the exception that escaped analyze(), None if none did
    log,                \* the steps analyze() has taken so far, in order: <<phase,
                        \* number of the file, outcome>>, the outcome being "ok",
                        \* "logged" (an exception was caught and logged, the file
                        \* skipped) or "raised" (an exception left analyze())
    reported,           \* the entries report() has listed
    collector,          \* the FieldCollector of a walk made statement by statement
    references,         \* the ModelValue objects created so far and the references
                        \* to them: of definitions_map and of their links
    calls               \* number of direct usage-recording calls made so far

vars == <<python_file_paths, xml_file_paths, definitions_map, map_order,
          pc, idx, error, log, reported, collector, references, calls>>

-----------------------------------------------------------------------------
(* Bounds *)

MaxPyFiles == 2
MaxXmlFiles == 1
MaxCalls == 3
\* depth at which the interpreter raises RecursionError; any value above the
\* number of models makes an overflow equivalent to an unbounded recursion
RecursionLimit == 6

-----------------------------------------------------------------------------
(* Python values *)

None == "None"

\* Python truth value of an optional string
Truthy(v) == v # None /\ v # ""

Range(s) == {s[i] : i \in 1..Len(s)}

Min(a, b) == IF a <= b THEN a ELSE b
Max(a, b) == IF a >= b THEN a ELSE b

\* all orders in which a Python set of the elements of S can be iterated
Perms(S) ==
    {p \in [1..Cardinality(S) -> S] :
        \A a, b \in 1..Cardinality(S) : p[a] = p[b] => a = b}

\* a dict without keys
EmptyDict == [k \in {} |-> None]

\* dict.update / insertion of keys: existing keys keep their position
RECURSIVE AppendNew(_, _)
AppendNew(order, keys) ==
    IF keys = <<>> THEN order
    ELSE AppendNew(IF Head(keys) \in Range(order) THEN order
                   ELSE Append(order, Head(keys)), Tail(keys))

-----------------------------------------------------------------------------
(* src/odecromancy/models.py *)

NoAttributes ==
    [relational |-> FALSE, comodel_name |-> None,
     inverse_name |-> None, related |-> <<>>]

FieldValue(field_name, definition_paths) ==
    [kind |-> "FieldValue", name |-> field_name, attributes |-> NoAttributes,
     unused_percentage |-> 100, definition_paths |-> definition_paths]

MethodValue(method_name, ast_function, definition_paths) ==
    [kind |-> "MethodValue", name |-> method_name,
     function_definitions |-> <<ast_function>>,
     unused_percentage |-> 100, definition_paths |-> definition_paths]

ModelValue(model_name, inherited_models) ==
    [kind |-> "ModelValue", name |-> model_name,
     inherited_models |-> inherited_models, child_models |-> <<>>,
     fields |-> EmptyDict, field_order |-> <<>>, methods |-> EmptyDict]

\* FieldValue.__ior__ that gives the merged field the score of a new field
FieldValue_ior_resets_score(self, other) ==
    [self EXCEPT
        !.unused_percentage = 100,
        !.definition_paths = self.definition_paths \cup other.definition_paths]

\* FieldValue.__ior__: truthy attributes of other overwrite, locations are united
FieldValue_ior(self, other) ==
    [self EXCEPT
        !.attributes =
            [relational |-> IF other.attributes.relational THEN TRUE
                            ELSE self.attributes.relational,
             comodel_name |-> IF Truthy(other.attributes.comodel_name)
                              THEN other.attributes.comodel_name
                              ELSE self.attributes.comodel_name,
             inverse_name |-> IF Truthy(other.attributes.inverse_name)
                              THEN other.attributes.inverse_name
                              ELSE self.attributes.inverse_name,
             related |-> IF other.attributes.related # <<>>
                         THEN other.attributes.related
                         ELSE self.attributes.related],
        !.definition_paths = self.definition_paths \cup other.definition_paths]

\* MethodValue.__ior__ that keeps the score of self
MethodValue_ior_keeps_score(self, other) ==
    [self EXCEPT
        !.function_definitions = self.function_definitions \o other.function_definitions,
        !.definition_paths = self.definition_paths \cup other.definition_paths]

\* MethodValue.__ior__
MethodValue_ior(self, other) ==
    [self EXCEPT
        !.function_definitions = self.function_definitions \o other.function_definitions,
        !.unused_percentage = Min(self.unused_percentage, other.unused_percentage),
        !.definition_paths = self.definition_paths \cup other.definition_paths]

\* ModelValue.__ior__
ModelValue_ior(self, other) ==
    [self EXCEPT
        !.fields =
            [f \in DOMAIN self.fields \cup DOMAIN other.fields |->
                IF f \in DOMAIN self.fields
                THEN IF f \in DOMAIN other.fields
                     THEN FieldValue_ior(self.fields[f], other.fields[f])
                     ELSE self.fields[f]
                ELSE other.fields[f]],
        !.field_order = AppendNew(self.field_order, other.field_order),
        !.methods =
            [m \in DOMAIN self.methods \cup DOMAIN other.methods |->
                IF m \in DOMAIN self.methods
                THEN IF m \in DOMAIN other.methods
                     THEN MethodValue_ior(self.methods[m], other.methods[m])
                     ELSE self.methods[m]
                ELSE other.methods[m]],
        !.inherited_models = AppendNew(self.inherited_models, other.inherited_models),
        !.child_models = AppendNew(self.child_models, other.child_models)]

\* isinstance(obj, class_)
isinstance(obj, class_) == obj.kind = class_

\* the statement self |= other on a MethodValue: [value, raised], value the
\* object self afterwards and raised the exception that leaves __ior__
MethodValue__ior__(self, other) ==
    IF ~isinstance(other, "MethodValue")
    THEN [value |-> self, raised |-> "TypeError"]
    ELSE [value |-> MethodValue_ior(self, other), raised |-> None]

\* self |= other on a ModelValue that goes on and returns self when other is
\* no ModelValue
ModelValue__ior__silent(self, other) ==
    IF ~isinstance(other, "ModelValue")
    THEN [value |-> self, raised |-> None]
    ELSE [value |-> ModelValue_ior(self, other), raised |-> None]

\* the statement self |= other on a ModelValue whose fields and methods hold
\* FieldValue and MethodValue objects
ModelValue__ior__(self, other) ==
    IF ~isinstance(other, "ModelValue")
    THEN [value |-> self, raised |-> "TypeError"]
    ELSE [value |-> ModelValue_ior(self, other), raised |-> None]

\* the assignment without its clamp: x.unused_percentage -= confidence
reduce_unclamped(unused_percentage, confidence) == unused_percentage - confidence

\* the assignment x.unused_percentage = max(x.unused_percentage - confidence, 0)
reduce(unused_percentage, confidence) == Max(unused_percentage - confidence, 0)

\* ModelValue.field_used, on the entry of model_name in the registry dm
field_used(dm, model_name, field_name, confidence) ==
    IF field_name \in DOMAIN dm[model_name].fields
    THEN [dm EXCEPT ![model_name].fields[field_name].unused_percentage =
                reduce(@, confidence)]
    ELSE [n \in DOMAIN dm |->
            IF n \in Range(dm[model_name].inherited_models)
               /\ field_name \in DOMAIN dm[n].fields
            THEN [dm[n] EXCEPT !.fields[field_name].unused_percentage =
                        reduce(@, confidence)]
            ELSE dm[n]]

\* ModelValue.field_used_multi
RECURSIVE field_used_multi(_, _, _, _)
field_used_multi(dm, model_name, fields, confidence) ==
    IF fields = <<>> THEN dm
    ELSE field_used_multi(field_used(dm, model_name, Head(fields), confidence),
                          model_name, Tail(fields), confidence)

\* ModelValue.field_used_in_view
field_used_in_view(dm, model_name, field_name) ==
    field_used(dm, model_name, field_name, 100)

\* ModelValue.method_used_child.  r = [dm, raised]; depth counts the frames of
\* the recursion, and exceeding RecursionLimit raises RecursionError, which
\* keeps the scores written so far.
RECURSIVE method_used_child(_, _, _, _)
RECURSIVE method_used_child_loop(_, _, _, _, _)
method_used_child_loop(r, children, i, method_name, depth) ==
    IF r.raised \/ i > Len(children) THEN r
    ELSE LET child == children[i]
             r1 == IF method_name \in DOMAIN r.dm[child].methods
                   THEN [r EXCEPT !.dm[child].methods[method_name].unused_percentage = 0]
                   ELSE r
         IN method_used_child_loop(
                method_used_child(r1, child, method_name, depth + 1),
                children, i + 1, method_name, depth)

\* method_used_child without the call of child.method_used_child: the score
\* is reset on the direct children only
method_used_child_direct(r, model_name, method_name, depth) ==
    [r EXCEPT !.dm =
        [n \in DOMAIN r.dm |->
            IF n \in Range(r.dm[model_name].child_models)
               /\ method_name \in DOMAIN r.dm[n].methods
            THEN [r.dm[n] EXCEPT !.methods[method_name].unused_percentage = 0]
            ELSE r.dm[n]]]

method_used_child(r, model_name, method_name, depth) ==
    IF r.raised THEN r
    ELSE IF depth > RecursionLimit THEN [r EXCEPT !.raised = TRUE]
    ELSE method_used_child_loop(r, r.dm[model_name].child_models, 1,
                                method_name, depth)

\* ModelValue.method_used
method_used(r, model_name, method_name, confidence) ==
    IF r.raised THEN r
    ELSE IF method_name \in DOMAIN r.dm[model_name].methods
    THEN method_used_child(
            [r EXCEPT !.dm[model_name].methods[method_name].unused_percentage =
                        reduce(@, confidence)],
            model_name, method_name, 1)
    ELSE [r EXCEPT !.dm =
            [n \in DOMAIN r.dm |->
                IF n \in Range(r.dm[model_name].inherited_models)
                   /\ method_name \in DOMAIN r.dm[n].methods
                THEN [r.dm[n] EXCEPT !.methods[method_name].unused_percentage =
                            reduce(@, confidence)]
                ELSE r.dm[n]]]

-----------------------------------------------------------------------------
(* Syntax trees (the ast module).  A node is a record with its class in k. *)

Name(id) == [k |-> "Name", id |-> id]
\* Constant is a string literal, Num a literal of another type
Constant(value) == [k |-> "Constant", value |-> value, is_str |-> TRUE]
Num(value) == [k |-> "Constant", value |-> value, is_str |-> FALSE]
\* no node: the None of an optional node, element or text
Absent == [k |-> "None"]
Attribute(value, attr) == [k |-> "Attribute", value |-> value, attr |-> attr]
Call(func, args) == [k |-> "Call", func |-> func, args |-> args]
Subscript(value, slice) == [k |-> "Subscript", value |-> value, slice |-> slice]
Compare(left, comparators) == [k |-> "Compare", left |-> left, comparators |-> comparators]
\* args are the names of the positional parameters of the lambda
Lambda(args, body) ==
    [k |-> "Lambda", args |-> [posonlyargs |-> <<>>, args |-> args], body |-> body]
List(elts) == [k |-> "List", elts |-> elts]
Dict(keys) == [k |-> "Dict", keys |-> keys]
comprehension(target, iter, ifs) ==
    [k |-> "comprehension", target |-> target, iter |-> iter, ifs |-> ifs]
ListComp(elt, generators) == [k |-> "ListComp", elt |-> elt, generators |-> generators]
Expr(value) == [k |-> "Expr", value |-> value]
Return(value) == [k |-> "Return", value |-> value]
Pass == [k |-> "Pass"]
Assign(targets, value) == [k |-> "Assign", targets |-> targets, value |-> value]
For(target, iter, body, orelse) ==
    [k |-> "For", target |-> target, iter |-> iter, body |-> body, orelse |-> orelse]
Module(body) == [k |-> "Module", body |-> body]
FunctionDef(name, decorator_list, body, lineno) ==
    [k |-> "FunctionDef", name |-> name, decorator_list |-> decorator_list,
     body |-> body, lineno |-> lineno]

\* an assignment  <id> = fields.<ftype>(*args, **keywords)  of a class body
FieldAssign(id, ftype, args, keywords, lineno) ==
    [id |-> id, ftype |-> ftype, args |-> args, keywords |-> keywords,
     lineno |-> lineno]

\* a class of a source file: the values last assigned to _name, _inherit and
\* _inherits (Absent when there is no such assignment), the assignments whose
\* right-hand side is a call of fields.<Type>, and the function definitions
ClassDef(name_node, inherit_node, composite_inherits_node, assigns, funcs) ==
    [name_node |-> name_node, inherit_node |-> inherit_node,
     composite_inherits_node |-> composite_inherits_node,
     assigns |-> assigns, funcs |-> funcs]

\* a source file: the classes of its body when it parses
SourceFile(path, parses, classes) ==
    [path |-> path, parses |-> parses, classes |-> classes]

\* the text of a view attribute or of a code field, with the tree that
\* ast.parse makes of it when it parses
Source(parses, tree) == [k |-> "source", parses |-> parses, tree |-> tree]

\* a <field name=.../> or <button name=.../> element of a view body: its name,
\* its invisible / readonly / required attributes (a dict of Source), and for
\* a field element its tree or form sub-view (Absent without a sub-view that
\* has children)
Element(name, attrs, sub) == [name |-> name, attrs |-> attrs, sub |-> sub]

\* the sub-view of a field element: the names of its field elements
SubView(fields) == [k |-> "sub", fields |-> fields]

\* the arch field of a view record: all its field elements and all its button
\* elements, in document order
Arch(fields, buttons) == [k |-> "arch", fields |-> fields, buttons |-> buttons]

\* a <record model=...> element: the text of its field named model, the ref of
\* its field named model_id (<<>> without one), its arch and its code field
\* (Absent without one).  A ref is kept as its parts between dots, each part as its words
\* between underscores: "m.model_res_partner" is
\* <<<<"m">>, <<"model", "res", "partner">>>>.
Record(model, model_field, model_id_ref, arch, code) ==
    [model |-> model, model_field |-> model_field, model_id_ref |-> model_id_ref,
     arch |-> arch, code |-> code]

\* a declarative file: its records when it is well-formed
XmlFile(parses, records) == [parses |-> parses, records |-> records]

-----------------------------------------------------------------------------
(* src/odecromancy/utils.py *)

get_str_from_constant_or_name(element) ==
    IF element.k = "Constant" THEN element.value
    ELSE IF element.k = "Name" THEN element.id
    ELSE None

RECURSIVE get_decorator_name(_)
get_decorator_name(decorator_node) ==
    IF decorator_node.k = "Name" THEN decorator_node.id
    ELSE IF decorator_node.k = "Call" THEN get_decorator_name(decorator_node.func)
    ELSE IF decorator_node.k = "Attribute" THEN decorator_node.attr
    ELSE None

-----------------------------------------------------------------------------
(* src/core.py: declaration extraction *)

\* the names collected into inherited_model_names by _initialize_model
inherited_model_names(class_def) ==
    (IF class_def.inherit_node.k = "Constant" THEN {class_def.inherit_node.value}
     ELSE IF class_def.inherit_node.k = "List"
     THEN {class_def.inherit_node.elts[i].value :
             i \in {j \in 1..Len(class_def.inherit_node.elts) :
                        class_def.inherit_node.elts[j].k = "Constant"}}
     ELSE {})
    \cup
    (IF class_def.composite_inherits_node.k = "Dict"
     THEN {class_def.composite_inherits_node.keys[i].value :
             i \in {j \in 1..Len(class_def.composite_inherits_node.keys) :
                        class_def.composite_inherits_node.keys[j].k = "Constant"}}
     ELSE {})

\* the loop "Resolve inherited models from existing map" of _initialize_model,
\* over the names in iteration order names; s = [dm, order, inherited]
RECURSIVE resolve_inherited(_, _, _)

\* the loop without "if inherited_name == model_name: continue"
resolve_inherited_with_own_name(s, names, model_name) ==
    IF names = <<>> THEN s
    ELSE LET inherited_name == Head(names) IN
         resolve_inherited(
            IF inherited_name \in DOMAIN s.dm
            THEN [s EXCEPT !.inherited = Append(@, inherited_name)]
            ELSE [dm |-> [n \in DOMAIN s.dm \cup {inherited_name} |->
                            IF n = inherited_name
                            THEN ModelValue(inherited_name, <<>>) ELSE s.dm[n]],
                  order |-> Append(s.order, inherited_name),
                  inherited |-> Append(s.inherited, inherited_name)],
            Tail(names), model_name)

resolve_inherited(s, names, model_name) ==
    IF names = <<>> THEN s
    ELSE LET inherited_name == Head(names) IN
         resolve_inherited(
            IF inherited_name = model_name THEN s
            ELSE IF inherited_name \in DOMAIN s.dm
            THEN [s EXCEPT !.inherited = Append(@, inherited_name)]
            ELSE [dm |-> [n \in DOMAIN s.dm \cup {inherited_name} |->
                            IF n = inherited_name
                            THEN ModelValue(inherited_name, <<>>) ELSE s.dm[n]],
                  order |-> Append(s.order, inherited_name),
                  inherited |-> Append(s.inherited, inherited_name)],
            Tail(names), model_name)

\* OdooAnalyzer._initialize_model: the set of possible results, one for each
\* iteration order of the set inherited_model_names.  A result is
\* [status, model, dm, order]: status "model" with the new ModelValue, "none"
\* when the class is skipped, "raise" when the AttributeError of
\* inherit_node.elts[0].value escapes.
_initialize_model(class_def, dm, order) ==
    LET name_node == class_def.name_node
        inherit_node == class_def.inherit_node
        plain(status, model) ==
            [status |-> status, model |-> model, dm |-> dm, order |-> order]
    IN
    IF name_node.k = "Constant"
    THEN {LET s == resolve_inherited(
                      [dm |-> dm, order |-> order, inherited |-> <<>>],
                      names, name_node.value)
          IN [status |-> "model",
              model |-> ModelValue(name_node.value, s.inherited),
              dm |-> s.dm, order |-> s.order] :
            names \in Perms(inherited_model_names(class_def))}
    ELSE IF inherit_node.k = "Constant"
    THEN {plain("model", ModelValue(inherit_node.value, <<>>))}
    ELSE IF inherit_node.k = "List" /\ Len(inherit_node.elts) = 1
    THEN IF inherit_node.elts[1].k = "Constant"
         THEN {plain("model", ModelValue(inherit_node.elts[1].value, <<>>))}
         ELSE {plain("raise", None)}
    ELSE {plain("none", None)}

\* get_str_from_constant_or_name of the value of a related keyword.  A dotted
\* path is kept as the sequence of its parts, which is what
\* related_path.split(".") yields: the Constant of a related keyword holds the
\* parts, a bare name is a single part, and no string is no part.
related_parts(element) ==
    IF element.k = "Constant" THEN element.value
    ELSE IF element.k = "Name" THEN <<element.id>>
    ELSE <<>>

RelationalTypes == {"Many2one", "One2many", "Many2many"}

\* the FieldValue that _find_fields builds from one assignment
field_of_assign(assign, file_path) ==
    LET args == assign.args
        keywords == assign.keywords
        comodel_name ==
            IF "comodel_name" \in DOMAIN keywords
            THEN get_str_from_constant_or_name(keywords["comodel_name"])
            ELSE IF args # <<>> THEN get_str_from_constant_or_name(args[1])
            ELSE None
        inverse_name ==
            IF assign.ftype # "One2many" THEN None
            ELSE IF "inverse_name" \in DOMAIN keywords
            THEN get_str_from_constant_or_name(keywords["inverse_name"])
            ELSE IF Len(args) > 1 THEN get_str_from_constant_or_name(args[2])
            ELSE None
        related ==
            IF "related" \in DOMAIN keywords
            THEN related_parts(keywords["related"])
            ELSE <<>>
        field == FieldValue(assign.id, {<<file_path, assign.lineno>>})
    IN IF assign.ftype \in RelationalTypes
       THEN [field EXCEPT !.attributes =
                [relational |-> TRUE, comodel_name |-> comodel_name,
                 inverse_name |-> inverse_name, related |-> related]]
       ELSE field

\* OdooAnalyzer._find_fields: the declared fields by name
_find_fields(class_def, file_path) ==
    [f \in {class_def.assigns[i].id : i \in 1..Len(class_def.assigns)} |->
        field_of_assign(
            class_def.assigns[CHOOSE i \in 1..Len(class_def.assigns) :
                                class_def.assigns[i].id = f],
            file_path)]

common_orm_decorators ==
    {"depends", "constrains", "onchange", "ondelete", "model_create_multi"}
ignored_methods == {"create", "write", "default_get", "unlink", "copy"}

\* func_def.name.startswith(("_compute", "_inverse", "_default")), over the
\* method names that occur in the analysed sources
startswith_auto_call(name) ==
    name \in {"_compute_total", "_inverse_total", "_default_state"}

\* OdooAnalyzer._find_methods: the declared methods by name
_find_methods(class_def, file_path) ==
    LET kept == {i \in 1..Len(class_def.funcs) :
                    LET func_def == class_def.funcs[i] IN
                    /\ {get_decorator_name(func_def.decorator_list[d]) :
                            d \in 1..Len(func_def.decorator_list)}
                        \cap common_orm_decorators = {}
                    /\ func_def.name \notin ignored_methods
                    /\ ~startswith_auto_call(func_def.name)}
    IN [m \in {class_def.funcs[i].name : i \in kept} |->
            LET func_def == class_def.funcs[CHOOSE i \in kept :
                                                class_def.funcs[i].name = m]
            IN MethodValue(m, func_def, {<<file_path, func_def.lineno>>})]

\* the body of the loop over the classes of _initialize_definitions_map for
\* one class: the set of possible [dm, order, raised]
declare_class(class_def, file_path, dm, order) ==
    UNION {
        IF r.status = "raise" THEN {[dm |-> r.dm, order |-> r.order, raised |-> TRUE]}
        ELSE IF r.status = "none"
        THEN {[dm |-> r.dm, order |-> r.order, raised |-> FALSE]}
        ELSE LET fields == _find_fields(class_def, file_path)
                 methods == _find_methods(class_def, file_path)
             IN {LET model == [r.model EXCEPT !.fields = fields,
                                              !.field_order = field_order,
                                              !.methods = methods]
                 IN IF model.name \in DOMAIN r.dm
                    THEN [dm |-> [r.dm EXCEPT ![model.name] = ModelValue_ior(@, model)],
                          order |-> r.order, raised |-> FALSE]
                    ELSE [dm |-> [n \in DOMAIN r.dm \cup {model.name} |->
                                    IF n = model.name THEN model ELSE r.dm[n]],
                          order |-> Append(r.order, model.name), raised |-> FALSE] :
                 field_order \in Perms(DOMAIN fields)}
        : r \in _initialize_model(class_def, dm, order)}

\* OdooAnalyzer._initialize_definitions_map: the possible registries after one
\* source file.  An exception (the file does not parse, or a class raises)
\* ends the file and keeps what was registered before it.
RECURSIVE declare_classes(_, _, _)
declare_classes(classes, file_path, s) ==
    IF classes = <<>> \/ s.raised THEN {s}
    ELSE UNION {declare_classes(Tail(classes), file_path, t) :
                    t \in declare_class(Head(classes), file_path, s.dm, s.order)}

_initialize_definitions_map(file, dm, order) ==
    IF ~file.parses THEN {[dm |-> dm, order |-> order, raised |-> TRUE]}
    ELSE declare_classes(file.classes, file.path,
                         [dm |-> dm, order |-> order, raised |-> FALSE])

-----------------------------------------------------------------------------
(* src/core.py: relationship resolution *)

NotFound == [status |-> "none", owner |-> None]

\* The recursive lookup shared by _get_field_definition, _get_method_definition
\* (core.py) and _get_field_info, _get_method_info (visitors.py): the entry of
\* name in the dict attr ("fields" or "methods") of model_name or, depth-first
\* in the order of inherited_models, of its first ancestor that has one.  The
\* result names the owner of the entry found; status "raise" is the
\* RecursionError of a lookup that exceeds RecursionLimit frames.
RECURSIVE lookup_definition(_, _, _, _, _)
RECURSIVE lookup_inherited(_, _, _, _, _, _)
lookup_inherited(dm, inherited, i, name, attr, depth) ==
    IF i > Len(inherited) THEN NotFound
    ELSE LET res == lookup_definition(dm, inherited[i], name, attr, depth + 1)
         IN IF res.status # "none" THEN res
            ELSE lookup_inherited(dm, inherited, i + 1, name, attr, depth)

lookup_definition(dm, model_name, name, attr, depth) ==
    IF depth > RecursionLimit THEN [status |-> "raise", owner |-> None]
    ELSE IF model_name \notin DOMAIN dm THEN NotFound
    ELSE IF name \in DOMAIN dm[model_name][attr]
    THEN [status |-> "found", owner |-> model_name]
    ELSE lookup_inherited(dm, dm[model_name].inherited_models, 1, name, attr, depth)

_get_field_definition(dm, model_name, field_name) ==
    lookup_definition(dm, model_name, field_name, "fields", 1)

_get_method_definition(dm, model_name, method_name) ==
    lookup_definition(dm, model_name, method_name, "methods", 1)

\* OdooAnalyzer._get_comodel_from_related_path.  r = [dm, raised]; the result is
\* [dm, raised, name] with name the model reached, or None.
RECURSIVE _get_comodel_from_related_path(_, _, _, _)
RECURSIVE related_path_loop(_, _, _, _)
related_path_loop(r, current_model, parts, depth) ==
    IF r.raised THEN [dm |-> r.dm, raised |-> TRUE, name |-> None]
    ELSE IF parts = <<>> THEN [dm |-> r.dm, raised |-> FALSE, name |-> current_model]
    ELSE IF current_model = None THEN [dm |-> r.dm, raised |-> FALSE, name |-> None]
    ELSE LET part == Head(parts)
             dm1 == field_used(r.dm, current_model, part, 100)
             field_def == _get_field_definition(dm1, current_model, part)
         IN IF field_def.status = "raise"
            THEN [dm |-> dm1, raised |-> TRUE, name |-> None]
            ELSE IF field_def.status = "none"
            THEN [dm |-> dm1, raised |-> FALSE, name |-> None]
            ELSE LET attributes == dm1[field_def.owner].fields[part].attributes IN
                 IF Truthy(attributes.comodel_name)
                 THEN related_path_loop(
                        [dm |-> dm1, raised |-> FALSE],
                        IF attributes.comodel_name \in DOMAIN dm1
                        THEN attributes.comodel_name ELSE None,
                        Tail(parts), depth)
                 ELSE IF attributes.related # <<>>
                 THEN LET sub == _get_comodel_from_related_path(
                                    [dm |-> dm1, raised |-> FALSE], current_model,
                                    attributes.related, depth + 1)
                      IN related_path_loop(
                            [dm |-> sub.dm, raised |-> sub.raised],
                            IF sub.name \in DOMAIN sub.dm THEN sub.name ELSE None,
                            Tail(parts), depth)
                 ELSE [dm |-> dm1, raised |-> FALSE, name |-> None]

_get_comodel_from_related_path(r, model_name, related_path, depth) ==
    IF depth > RecursionLimit THEN [dm |-> r.dm, raised |-> TRUE, name |-> None]
    ELSE related_path_loop(r, model_name, related_path, depth)

\* _fill_definitions_map, "1. Resolve Children": every model is registered as a
\* child of each of its parents, in registry order
RECURSIVE resolve_children(_, _)

\* the registration of children that stops at the first parent of a model
resolve_children_of_first_parent(dm, order) ==
    IF order = <<>> THEN dm
    ELSE resolve_children(
            [n \in DOMAIN dm |->
                IF /\ dm[Head(order)].inherited_models # <<>>
                   /\ n = dm[Head(order)].inherited_models[1]
                THEN [dm[n] EXCEPT !.child_models = AppendNew(@, <<Head(order)>>)]
                ELSE dm[n]],
            Tail(order))

resolve_children(dm, order) ==
    IF order = <<>> THEN dm
    ELSE resolve_children(
            [n \in DOMAIN dm |->
                IF n \in Range(dm[Head(order)].inherited_models)
                THEN [dm[n] EXCEPT !.child_models = AppendNew(@, <<Head(order)>>)]
                ELSE dm[n]],
            Tail(order))

\* "Fix relational fields inheriting comodel" for one field
RECURSIVE inherit_comodel(_, _, _, _)
inherit_comodel(r, model_name, field_name, parents) ==
    IF r.raised \/ parents = <<>> THEN r
    ELSE LET parent_field == _get_field_definition(r.dm, Head(parents), field_name) IN
         IF parent_field.status = "raise" THEN [r EXCEPT !.raised = TRUE]
         ELSE IF parent_field.status = "found"
                 /\ Truthy(r.dm[parent_field.owner].fields[field_name].attributes.comodel_name)
         THEN [r EXCEPT !.dm[model_name].fields[field_name].attributes.comodel_name =
                    r.dm[parent_field.owner].fields[field_name].attributes.comodel_name]
         ELSE inherit_comodel(r, model_name, field_name, Tail(parents))

\* the body of the loop "2. Process Relations & Related Fields" for one field
resolve_field(r, model_name, field_name) ==
    LET r1 == IF r.dm[model_name].fields[field_name].attributes.relational
                 /\ ~Truthy(r.dm[model_name].fields[field_name].attributes.comodel_name)
              THEN inherit_comodel(r, model_name, field_name,
                                   r.dm[model_name].inherited_models)
              ELSE r
    IN IF r1.raised THEN r1
       ELSE IF r1.dm[model_name].fields[field_name].attributes.related # <<>>
               /\ ~Truthy(r1.dm[model_name].fields[field_name].attributes.comodel_name)
       THEN LET res == _get_comodel_from_related_path(
                            r1, model_name,
                            r1.dm[model_name].fields[field_name].attributes.related, 1)
            IN IF res.raised THEN [dm |-> res.dm, raised |-> TRUE]
               ELSE [dm |-> [res.dm EXCEPT
                                ![model_name].fields[field_name].attributes.comodel_name =
                                    res.name],
                     raised |-> FALSE]
       ELSE r1

RECURSIVE resolve_fields(_, _, _)
resolve_fields(r, model_name, field_names) ==
    IF r.raised \/ field_names = <<>> THEN r
    ELSE resolve_fields(resolve_field(r, model_name, Head(field_names)),
                        model_name, Tail(field_names))

RECURSIVE resolve_models(_, _)
resolve_models(r, order) ==
    IF r.raised \/ order = <<>> THEN r
    ELSE resolve_models(resolve_fields(r, Head(order), r.dm[Head(order)].field_order),
                        Tail(order))

\* OdooAnalyzer._fill_definitions_map: [dm, raised]
_fill_definitions_map(dm, order) ==
    resolve_models([dm |-> resolve_children(dm, order), raised |-> FALSE], order)

-----------------------------------------------------------------------------
(* src/odecromancy/visitors.py: FieldCollector *)

(* The state of a collector is [stack, used_fields_by_model,                *)
(* used_methods_by_model, raised].  stack is model_context_stack, a         *)
(* sequence of <<model name, binding name>>; a binding name is a dotted     *)
(* name kept as its parts ("self.r" is <<"self", "r">>), so that            *)
(* f"{obj_name}.{name}" appends a part and "." in obj_name asks for more    *)
(* than one part.  The two defaultdict(set) are [keys, s]: the keys in      *)
(* insertion order and the set of each key.  raised is None, or the name of *)
(* the exception that ended the walk.                                       *)

EmptyUsage == [keys |-> <<>>, s |-> EmptyDict]

track(usage, model_name, name) ==
    IF model_name \in Range(usage.keys)
    THEN [usage EXCEPT !.s[model_name] = @ \cup {name}]
    ELSE [keys |-> Append(usage.keys, model_name),
          s |-> [n \in DOMAIN usage.s \cup {model_name} |->
                    IF n = model_name THEN {name} ELSE usage.s[n]]]

\* FieldCollector.__init__
FieldCollector(current_model_name, default_context_stack) ==
    [stack |-> default_context_stack \o <<<<current_model_name, <<"self">>>>>>,
     used_fields_by_model |-> EmptyUsage,
     used_methods_by_model |-> EmptyUsage,
     raised |-> None]

_get_field_info(dm, model_name, name) ==
    lookup_definition(dm, model_name, name, "fields", 1)

_get_method_info(dm, model_name, name) ==
    lookup_definition(dm, model_name, name, "methods", 1)

\* FieldCollector._get_context_for_name: the model of the innermost binding of
\* the local name, None without one
_get_context_for_name(stack, name) ==
    LET hits == {i \in 1..Len(stack) : stack[i][2] = <<name>>}
    IN IF hits = {} THEN None
       ELSE stack[CHOOSE i \in hits : \A j \in hits : j <= i][1]

_track_field_usage(st, model_name, field_name) ==
    [st EXCEPT !.used_fields_by_model = track(@, model_name, field_name)]

_track_method_usage(st, model_name, method_name) ==
    [st EXCEPT !.used_methods_by_model = track(@, model_name, method_name)]

push(st, model_name, obj_name) ==
    [st EXCEPT !.stack = Append(@, <<model_name, obj_name>>)]

\* list.pop() of model_context_stack
pop(st) ==
    IF st.stack = <<>> THEN [st EXCEPT !.raised = "IndexError"]
    ELSE [st EXCEPT !.stack = SubSeq(@, 1, Len(@) - 1)]

top(st) == st.stack[Len(st.stack)]

Markers == {<<"mapped_call">>, <<"env_call">>}

\* the lookup of name on model_name that both branches of visit_Attribute
\* make, for the object bound as obj_name; chained is TRUE in the branch of a
\* nested object, which alone may pop
resolve_attribute(dm, st, model_name, obj_name, name, chained) ==
    LET field_value == _get_field_info(dm, model_name, name)
        method_value == _get_method_info(dm, model_name, name)
    IN IF field_value.status = "raise" \/ method_value.status = "raise"
       THEN [st EXCEPT !.raised = "RecursionError"]
       ELSE IF field_value.status = "found"
       THEN LET comodel_name ==
                    dm[field_value.owner].fields[name].attributes.comodel_name
                st1 == _track_field_usage(st, model_name, name)
                st2 == IF Truthy(comodel_name)
                       THEN push(st1, comodel_name, Append(obj_name, name))
                       ELSE st1
                should_pop == /\ ~Truthy(comodel_name)
                              /\ Len(obj_name) > 1
                              /\ obj_name \notin Markers
            IN IF chained /\ should_pop THEN pop(st2) ELSE st2
       ELSE IF method_value.status = "found"
       THEN _track_method_usage(st, model_name, name)
       ELSE st

\* FieldCollector._handle_orm_context_change
_handle_orm_context_change(dm, st, node, model_name, method_name) ==
    IF /\ method_name \in {"mapped", "filtered", "filtered_domain"}
       /\ node.args # <<>>
       /\ node.args[1].k = "Constant"
       /\ node.args[1].is_str
    THEN LET field_name_str == node.args[1].value
             st1 == _track_field_usage(st, model_name, field_name_str)
         IN IF method_name = "mapped"
            THEN LET field_value == _get_field_info(dm, model_name, field_name_str) IN
                 IF field_value.status = "raise"
                 THEN [st1 EXCEPT !.raised = "RecursionError"]
                 ELSE IF field_value.status = "found"
                         /\ Truthy(dm[field_value.owner].fields[field_name_str]
                                        .attributes.comodel_name)
                 THEN push(st1,
                           dm[field_value.owner].fields[field_name_str]
                                .attributes.comodel_name,
                           <<"mapped_call">>)
                 ELSE st1
            ELSE st1
    ELSE st

\* the part of visit_Call that follows self.visit(node.func.value)
call_after_value(dm, st, node) ==
    IF st.raised # None \/ st.stack = <<>> THEN st
    ELSE LET method_name == node.func.attr
             model_name == top(st)[1]
             method_value == _get_method_info(dm, model_name, method_name)
         IN IF method_value.status = "raise"
            THEN [st EXCEPT !.raised = "RecursionError"]
            ELSE LET st1 == IF method_value.status = "found"
                            THEN _track_method_usage(st, model_name, method_name)
                            ELSE st
                     st2 == IF method_name \in
                                {"filtered", "filtered_domain", "mapped", "search"}
                            THEN _handle_orm_context_change(dm, st1, node,
                                                            model_name, method_name)
                            ELSE st1
                 IN IF st2.raised = None /\ st2.stack # <<>>
                       /\ top(st2)[2] \in Markers
                    THEN pop(st2) ELSE st2

\* the condition of visit_Subscript: self.env[<string literal>]
is_self_env_subscript(node) ==
    /\ node.value.k = "Attribute"
    /\ node.value.attr = "env"
    /\ node.value.value.k = "Name"
    /\ node.value.value.id = "self"
    /\ node.slice.k = "Constant"
    /\ node.slice.is_str

\* the binding that visit_Assign pushes after visiting the value, if any
assign_after_value(st, node) ==
    LET names == {i \in 1..Len(node.targets) : node.targets[i].k = "Name"}
    IN IF st.raised # None \/ names = {} THEN st
       ELSE LET target_name == node.targets[CHOOSE i \in names :
                                                \A j \in names : j <= i].id
                call_node == node.value
            IN IF /\ call_node.k = "Call"
                  /\ call_node.func.k = "Attribute"
                  /\ call_node.func.attr \in {"search", "browse", "create"}
                  /\ call_node.func.value.k = "Subscript"
                  /\ call_node.func.value.value.k = "Attribute"
                  /\ call_node.func.value.value.attr = "env"
                  /\ call_node.func.value.slice.k = "Constant"
                  /\ call_node.func.value.slice.is_str
               THEN push(st, call_node.func.value.slice.value, <<target_name>>)
               ELSE st

\* the child nodes that ast.NodeVisitor.generic_visit visits, in the order of
\* the node's _fields
children(node) ==
    CASE node.k = "Attribute" -> <<node.value>>
      [] node.k = "Call" -> <<node.func>> \o node.args
      [] node.k = "Subscript" -> <<node.value, node.slice>>
      [] node.k = "Compare" -> <<node.left>> \o node.comparators
      [] node.k = "Lambda" -> <<node.body>>
      [] node.k = "List" -> node.elts
      [] node.k = "Expr" -> <<node.value>>
      [] node.k = "Return" -> <<node.value>>
      [] node.k = "Module" -> node.body
      [] node.k = "FunctionDef" -> node.body \o node.decorator_list
      [] OTHER -> <<>>

RECURSIVE visit(_, _, _)
RECURSIVE visit_all(_, _, _)
RECURSIVE unwind(_, _, _)

\* self.visit applied to the nodes of a list in turn
visit_all(dm, st, nodes) ==
    IF nodes = <<>> \/ st.raised # None THEN st
    ELSE visit_all(dm, visit(dm, st, Head(nodes)), Tail(nodes))

generic_visit(dm, st, node) == visit_all(dm, st, children(node))

\* the loops that pop the stack down to size; visit_For stops at a binding
\* named self
unwind(st, size, stop_at_self) ==
    IF st.raised # None \/ Len(st.stack) <= size THEN st
    ELSE IF stop_at_self /\ top(st)[2] = <<"self">> THEN st
    ELSE unwind(pop(st), size, stop_at_self)

visit_Attribute(dm, st, node) ==
    LET st1 ==
            IF node.value.k = "Name"
            THEN LET model_name == _get_context_for_name(st.stack, node.value.id) IN
                 IF Truthy(model_name)
                 THEN resolve_attribute(dm, st, model_name, <<node.value.id>>,
                                        node.attr, FALSE)
                 ELSE st
            ELSE IF node.value.k \in {"Attribute", "Call"}
            THEN LET sv == visit(dm, st, node.value) IN
                 IF sv.raised = None /\ Len(sv.stack) > 1
                 THEN resolve_attribute(dm, sv, top(sv)[1], top(sv)[2],
                                        node.attr, TRUE)
                 ELSE sv
            ELSE st
    IN IF st1.raised # None THEN st1 ELSE generic_visit(dm, st1, node)

visit_Subscript(dm, st, node) ==
    generic_visit(dm,
                  IF is_self_env_subscript(node)
                  THEN push(st, node.slice.value, <<"env_call">>) ELSE st,
                  node)

visit_Lambda(dm, st, node) ==
    IF st.stack = <<>> THEN generic_visit(dm, st, node)
    ELSE LET model_name == top(st)[1]
             lambda_arg_name ==
                IF node.args.posonlyargs # <<>> THEN node.args.posonlyargs[1]
                ELSE IF node.args.args # <<>> THEN node.args.args[1]
                ELSE None
         IN IF lambda_arg_name # None
            THEN LET sb == visit(dm, push(st, model_name, <<lambda_arg_name>>),
                                 node.body)
                 IN IF sb.raised # None THEN sb ELSE pop(sb)
            ELSE generic_visit(dm, st, node)

visit_Call(dm, st, node) ==
    LET st1 == IF node.func.k = "Attribute"
               THEN call_after_value(dm, visit(dm, st, node.func.value), node)
               ELSE st
    IN IF st1.raised # None THEN st1 ELSE generic_visit(dm, st1, node)

\* FieldCollector._visit_comprehension, for SetComp, ListComp and GeneratorExp
_visit_comprehension(dm, st, node) ==
    unwind(visit_all(dm, visit(dm, st, node.elt), node.generators),
           Len(st.stack), FALSE)

visit_comprehension(dm, st, node) ==
    LET si == visit(dm, st, node.iter) IN
    IF si.raised # None \/ si.stack = <<>> THEN si
    ELSE IF node.target.k = "Name"
    THEN visit_all(dm, push(si, top(si)[1], <<node.target.id>>), node.ifs)
    ELSE si

visit_For(dm, st, node) ==
    LET si == visit(dm, st, node.iter)
        sb == IF si.raised = None /\ si.stack # <<>> /\ node.target.k = "Name"
              THEN LET s1 == visit_all(dm, push(si, top(si)[1], <<node.target.id>>),
                                       node.body)
                   IN IF s1.raised # None THEN s1 ELSE pop(s1)
              ELSE si
    IN visit_all(dm, unwind(sb, Len(st.stack), TRUE), node.orelse)

visit_Assign(dm, st, node) ==
    assign_after_value(visit(dm, st, node.value), node)

\* ast.NodeVisitor.visit: dispatch on the class of the node
visit(dm, st, node) ==
    IF st.raised # None THEN st
    ELSE CASE node.k = "Attribute" -> visit_Attribute(dm, st, node)
           [] node.k = "Subscript" -> visit_Subscript(dm, st, node)
           [] node.k = "Lambda" -> visit_Lambda(dm, st, node)
           [] node.k = "Call" -> visit_Call(dm, st, node)
           [] node.k \in {"SetComp", "ListComp", "GeneratorExp"} ->
                _visit_comprehension(dm, st, node)
           [] node.k = "comprehension" -> visit_comprehension(dm, st, node)
           [] node.k = "For" -> visit_For(dm, st, node)
           [] node.k = "Assign" -> visit_Assign(dm, st, node)
           [] OTHER -> generic_visit(dm, st, node)

-----------------------------------------------------------------------------
(* src/core.py: usage extraction *)

\* the identifiers of the analysed sources in the order of Python's string
\* comparison, which sorted() follows
Collation ==
    <<"_compute_total", "_default_state", "_inverse_total", "a_id", "act",
      "e", "f", "g", "h", "k", "m", "n", "r", "v", "w", "x", "y", "z">>

RECURSIVE SetToSeq(_)
SetToSeq(S) ==
    IF S = {} THEN <<>>
    ELSE LET x == CHOOSE x \in S : TRUE IN <<x>> \o SetToSeq(S \ {x})

sorted(S) ==
    SelectSeq(Collation, LAMBDA n : n \in S) \o SetToSeq(S \ Range(Collation))

\* FieldCollector.get_results: the models in the order of the keys of the
\* result, with the sorted field and method names of each
get_results(st) ==
    LET keys == AppendNew(st.used_fields_by_model.keys, st.used_methods_by_model.keys)
    IN [i \in 1..Len(keys) |->
            [model |-> keys[i],
             fields |-> IF keys[i] \in DOMAIN st.used_fields_by_model.s
                        THEN sorted(st.used_fields_by_model.s[keys[i]]) ELSE <<>>,
             methods |-> IF keys[i] \in DOMAIN st.used_methods_by_model.s
                         THEN sorted(st.used_methods_by_model.s[keys[i]]) ELSE <<>>]]

RECURSIVE method_used_multi(_, _, _)
method_used_multi(r, model_name, methods) ==
    IF r.raised \/ methods = <<>> THEN r
    ELSE method_used_multi(method_used(r, model_name, Head(methods), 100),
                           model_name, Tail(methods))

\* OdooAnalyzer._mark_usage_from_collector.  r = [dm, raised]
RECURSIVE _mark_usage_from_collector(_, _)
_mark_usage_from_collector(r, results) ==
    IF r.raised \/ results = <<>> THEN r
    ELSE LET usage == Head(results) IN
         _mark_usage_from_collector(
            IF usage.model \notin DOMAIN r.dm THEN r
            ELSE method_used_multi(
                    [r EXCEPT !.dm = field_used_multi(@, usage.model, usage.fields, 100)],
                    usage.model, usage.methods),
            Tail(results))

RECURSIVE join(_, _)
join(words, sep) ==
    IF words = <<>> THEN ""
    ELSE IF Len(words) = 1 THEN words[1]
    ELSE words[1] \o sep \o join(Tail(words), sep)

\* OdooAnalyzer._get_xml_record_model
_get_xml_record_model(record_node) ==
    IF record_node.model_field # None /\ record_node.model_field # ""
    THEN record_node.model_field
    ELSE IF record_node.model_id_ref # <<>>
    THEN LET whole == record_node.model_id_ref
             ref == IF Len(whole) > 1 THEN whole[2] ELSE whole[1]
         IN IF Len(ref) > 1 /\ ref[1] = "model" THEN join(Tail(ref), ".") ELSE ""
    ELSE ""

\* OdooAnalyzer._extract_fields_from_xml_attributes: [used, raised], raised
\* naming an exception other than the SyntaxError and ValueError it catches
RECURSIVE extract_attrs(_, _, _, _, _)
extract_attrs(dm, model_name, element, attrs, used) ==
    IF attrs = <<>> THEN [used |-> used, raised |-> None]
    ELSE IF Head(attrs) \notin DOMAIN element.attrs \/ ~element.attrs[Head(attrs)].parses
    THEN extract_attrs(dm, model_name, element, Tail(attrs), used)
    ELSE LET visitor == visit(dm, FieldCollector(model_name, <<>>),
                              element.attrs[Head(attrs)].tree)
         IN IF visitor.raised # None THEN [used |-> used, raised |-> visitor.raised]
            ELSE extract_attrs(dm, model_name, element, Tail(attrs),
                    used \cup (IF model_name \in DOMAIN visitor.used_fields_by_model.s
                               THEN visitor.used_fields_by_model.s[model_name]
                               ELSE {}))

_extract_fields_from_xml_attributes(dm, model_name, element) ==
    extract_attrs(dm, model_name, element, <<"invisible", "readonly", "required">>, {})

\* the "Sub-views" block of _parse_view_arch for the field elements of sub_root
RECURSIVE sub_view_fields(_, _, _, _)
sub_view_fields(dm, comodel, inverse_name, sub_fields) ==
    IF sub_fields = <<>> THEN dm
    ELSE LET dm1 == field_used_in_view(dm, comodel, Head(sub_fields))
         IN sub_view_fields(
                IF Truthy(inverse_name) THEN field_used_in_view(dm1, comodel, inverse_name)
                ELSE dm1,
                comodel, inverse_name, Tail(sub_fields))

\* the loop "Parse fields" of _parse_view_arch.  r = [dm, raised], raised
\* naming the exception that escapes
RECURSIVE view_fields(_, _, _, _)

\* the loop "Parse fields" with model.field_used_multi(list(used), 100) moved
\* into the block of the sub-views
view_fields_marked_in_sub_view(r, model_name, elements, processed_fields) ==
    IF r.raised # None \/ elements = <<>> THEN r
    ELSE LET field == Head(elements)
             fname == field.name
             fdef == _get_field_definition(r.dm, model_name, fname)
         IN IF fdef.status = "raise" THEN [r EXCEPT !.raised = "RecursionError"]
            ELSE IF fname \in processed_fields
            THEN view_fields(r, model_name, Tail(elements), processed_fields)
            ELSE LET extracted == _extract_fields_from_xml_attributes(r.dm, model_name, field)
                     used == {fname} \cup extracted.used
                     attributes == r.dm[fdef.owner].fields[fname].attributes
                     dm1 == IF /\ fdef.status = "found"
                               /\ field.sub.k # "None"
                               /\ Truthy(attributes.comodel_name)
                               /\ attributes.comodel_name \in DOMAIN r.dm
                            THEN field_used_multi(
                                    sub_view_fields(r.dm, attributes.comodel_name,
                                                    attributes.inverse_name,
                                                    field.sub.fields),
                                    model_name, SetToSeq(used), 100)
                            ELSE r.dm
                 IN IF extracted.raised # None
                    THEN [r EXCEPT !.raised = extracted.raised]
                    ELSE view_fields([r EXCEPT !.dm = dm1], model_name,
                                     Tail(elements), processed_fields \cup used)

view_fields(r, model_name, elements, processed_fields) ==
    IF r.raised # None \/ elements = <<>> THEN r
    ELSE LET field == Head(elements)
             fname == field.name
             fdef == _get_field_definition(r.dm, model_name, fname)
         IN IF fdef.status = "raise" THEN [r EXCEPT !.raised = "RecursionError"]
            ELSE IF fname \in processed_fields
            THEN view_fields(r, model_name, Tail(elements), processed_fields)
            ELSE LET extracted == _extract_fields_from_xml_attributes(r.dm, model_name, field)
                     used == {fname} \cup extracted.used
                     attributes == r.dm[fdef.owner].fields[fname].attributes
                     dm1 == IF /\ fdef.status = "found"
                               /\ field.sub.k # "None"
                               /\ Truthy(attributes.comodel_name)
                               /\ attributes.comodel_name \in DOMAIN r.dm
                            THEN sub_view_fields(r.dm, attributes.comodel_name,
                                                 attributes.inverse_name, field.sub.fields)
                            ELSE r.dm
                 IN IF extracted.raised # None
                    THEN [r EXCEPT !.raised = extracted.raised]
                    ELSE view_fields(
                            [r EXCEPT !.dm = field_used_multi(dm1, model_name,
                                                              SetToSeq(used), 100)],
                            model_name, Tail(elements), processed_fields \cup used)

\* the loop "Parse buttons" of _parse_view_arch
RECURSIVE view_buttons(_, _, _)
view_buttons(r, model_name, buttons) ==
    IF r.raised # None \/ buttons = <<>> THEN r
    ELSE LET btn == Head(buttons)
             method_def == _get_method_definition(r.dm, model_name, btn.name)
         IN IF method_def.status = "raise" THEN [r EXCEPT !.raised = "RecursionError"]
            ELSE IF method_def.status = "none"
            THEN view_buttons(r, model_name, Tail(buttons))
            ELSE LET r1 == method_used([dm |-> r.dm, raised |-> FALSE],
                                       model_name, btn.name, 100)
                     used_attrs == _extract_fields_from_xml_attributes(r1.dm, model_name, btn)
                 IN IF r1.raised THEN [dm |-> r1.dm, raised |-> "RecursionError"]
                    ELSE IF used_attrs.raised # None
                    THEN [dm |-> r1.dm, raised |-> used_attrs.raised]
                    ELSE view_buttons(
                            [dm |-> field_used_multi(r1.dm, model_name,
                                                     SetToSeq(used_attrs.used), 100),
                             raised |-> None],
                            model_name, Tail(buttons))

\* OdooAnalyzer._parse_view_arch
_parse_view_arch(r, record_node) ==
    LET model_name == _get_xml_record_model(record_node) IN
    IF model_name \notin DOMAIN r.dm \/ record_node.arch.k = "None" THEN r
    ELSE view_buttons(view_fields(r, model_name, record_node.arch.fields, {}),
                      model_name, record_node.arch.buttons)

\* the names bound to the record's model in the code of an automation record
code_context(model_name) ==
    <<<<model_name, <<"records">>>>, <<model_name, <<"record">>>>,
      <<model_name, <<"model">>>>>>

\* _parse_xml_data_code with the code parsed before the model is looked up
_parse_xml_data_code_parse_first(r, record_node) ==
    LET model_name == _get_xml_record_model(record_node) IN
    IF record_node.code.k = "None" THEN r
    ELSE IF ~record_node.code.parses THEN [r EXCEPT !.raised = "SyntaxError"]
    ELSE IF model_name \notin DOMAIN r.dm THEN r
    ELSE LET fc == visit(r.dm, FieldCollector(model_name, code_context(model_name)),
                         record_node.code.tree)
         IN IF fc.raised # None THEN [r EXCEPT !.raised = fc.raised]
            ELSE LET marked == _mark_usage_from_collector(
                                    [dm |-> r.dm, raised |-> FALSE], get_results(fc))
                 IN [dm |-> marked.dm,
                     raised |-> IF marked.raised THEN "RecursionError" ELSE None]

\* OdooAnalyzer._parse_xml_data_code
_parse_xml_data_code(r, record_node) ==
    LET model_name == _get_xml_record_model(record_node) IN
    IF model_name \notin DOMAIN r.dm \/ record_node.code.k = "None" THEN r
    ELSE IF ~record_node.code.parses THEN [r EXCEPT !.raised = "SyntaxError"]
    ELSE LET fc == visit(r.dm, FieldCollector(model_name, code_context(model_name)),
                         record_node.code.tree)
         IN IF fc.raised # None THEN [r EXCEPT !.raised = fc.raised]
            ELSE LET marked == _mark_usage_from_collector(
                                    [dm |-> r.dm, raised |-> FALSE], get_results(fc))
                 IN [dm |-> marked.dm,
                     raised |-> IF marked.raised THEN "RecursionError" ELSE None]

\* the loop over the records of OdooAnalyzer._fill_fields_from_xml_file
RECURSIVE xml_records(_, _)
xml_records(r, records) ==
    IF r.raised # None \/ records = <<>> THEN r
    ELSE xml_records(
            IF Head(records).model = "ir.ui.view"
            THEN _parse_view_arch(r, Head(records))
            ELSE IF Head(records).model \in {"ir.actions.server", "ir.cron"}
            THEN _parse_xml_data_code(r, Head(records))
            ELSE r,
            Tail(records))

\* OdooAnalyzer._fill_fields_from_xml_file; raised "ParseError" is the
\* exception of a file that is not well-formed
_fill_fields_from_xml_file(file, dm) ==
    IF ~file.parses THEN [dm |-> dm, raised |-> "ParseError"]
    ELSE xml_records([dm |-> dm, raised |-> None], file.records)

\* "Process decorators" of _fill_field_usage_in_methods for one function
RECURSIVE decorator_args_used(_, _, _)
decorator_args_used(dm, model_name, args) ==
    IF args = <<>> THEN dm
    ELSE decorator_args_used(
            IF Head(args).k = "Constant"
            THEN field_used(dm, model_name, Head(args).value, 25) ELSE dm,
            model_name, Tail(args))

RECURSIVE decorators_used(_, _, _)
decorators_used(dm, model_name, decorator_list) ==
    IF decorator_list = <<>> THEN dm
    ELSE decorators_used(
            IF Head(decorator_list).k = "Call"
            THEN decorator_args_used(dm, model_name, Head(decorator_list).args)
            ELSE dm,
            model_name, Tail(decorator_list))

\* the loop over the functions of a class of _fill_field_usage_in_methods.
\* r = [dm, raised]
RECURSIVE methods_of_class(_, _, _)
methods_of_class(r, real_model_name, funcs) ==
    IF r.raised \/ funcs = <<>> THEN r
    ELSE LET func == Head(funcs)
             dm1 == decorators_used(r.dm, real_model_name, func.decorator_list)
             fc == visit(dm1, FieldCollector(real_model_name, <<>>), func)
         IN methods_of_class(
                IF fc.raised # None THEN [dm |-> dm1, raised |-> TRUE]
                ELSE _mark_usage_from_collector([dm |-> dm1, raised |-> FALSE],
                                                get_results(fc)),
                real_model_name, Tail(funcs))

\* the loop over the classes of _fill_field_usage_in_methods: the possible
\* [dm, order, raised]
RECURSIVE methods_of_classes(_, _)
methods_of_classes(classes, s) ==
    IF classes = <<>> \/ s.raised THEN {s}
    ELSE UNION {
            methods_of_classes(Tail(classes),
                IF m.status = "raise"
                THEN [dm |-> m.dm, order |-> m.order, raised |-> TRUE]
                ELSE IF m.status = "none" \/ m.model.name \notin DOMAIN m.dm
                THEN [dm |-> m.dm, order |-> m.order, raised |-> FALSE]
                ELSE LET r == methods_of_class([dm |-> m.dm, raised |-> FALSE],
                                               m.model.name, Head(classes).funcs)
                     IN [dm |-> r.dm, order |-> m.order, raised |-> r.raised])
            : m \in _initialize_model(Head(classes), s.dm, s.order)}

\* OdooAnalyzer._fill_field_usage_in_methods; every exception is caught
_fill_field_usage_in_methods(file, dm, order) ==
    IF ~file.parses THEN {[dm |-> dm, order |-> order, raised |-> TRUE]}
    ELSE methods_of_classes(file.classes, [dm |-> dm, order |-> order, raised |-> FALSE])

\* OdooAnalyzer.report: the entries it lists, <<model, "field" or "method", name>>
report(dm) ==
    UNION {
        LET model == dm[model_name]
            unused_fields == {f \in DOMAIN model.fields :
                                model.fields[f].unused_percentage >= 100}
            unused_methods == {m \in DOMAIN model.methods :
                                model.methods[m].unused_percentage >= 100}
        IN IF DOMAIN model.fields = {} /\ DOMAIN model.methods = {} THEN {}
           ELSE IF unused_fields = {} \/ unused_methods = {} THEN {}
           ELSE {<<model_name, "field", f>> : f \in unused_fields}
                \cup {<<model_name, "method", m>> : m \in unused_methods}
        : model_name \in DOMAIN dm}

-----------------------------------------------------------------------------
(* The analysed project: source files and declarative files.  Each file is  *)
(* the syntax tree of the text quoted above it.                             *)

\*   class Partner(models.Model):
\*       _name = 'B'
\*       e = fields.Char()
\*       g = fields.Char()
py_partner ==
    SourceFile("partner.py", TRUE, <<
    ClassDef(Constant("B"), Absent, Absent,
        <<FieldAssign("e", "Char", <<>>, EmptyDict, 4), FieldAssign("g", "Char", <<>>, EmptyDict, 5)>>,
        <<>>)>>)

\*   class Order(models.Model):
\*       _name = 'A'
\*       r = fields.Many2one('B')
\*       def m(self):
\*           return self.r.e
py_order_chain ==
    SourceFile("order_chain.py", TRUE, <<
    ClassDef(Constant("A"), Absent, Absent,
        <<FieldAssign("r", "Many2one", <<Constant("B")>>, EmptyDict, 4)>>,
        <<FunctionDef("m", <<>>, <<Return(Attribute(Attribute(Name("self"), "r"), "e"))>>, 5)>>)>>)

\*   class Order(models.Model):
\*       _name = 'A'
\*       r = fields.One2many('B', 'a_id')
\*       def n(self):
\*           return self.r.mapped('e')
py_order_mapped ==
    SourceFile("order_mapped.py", TRUE, <<
    ClassDef(Constant("A"), Absent, Absent,
        <<FieldAssign("r", "One2many", <<Constant("B"), Constant("a_id")>>, EmptyDict, 4)>>,
        <<FunctionDef("n", <<>>, <<Return(Call(Attribute(Attribute(Name("self"), "r"), "mapped"), <<Constant("e")>>))>>, 5)>>)>>)

\*   class Child(models.Model):
\*       _name = 'C'
\*       _inherit = 'B'
\*       def m(self):
\*           return self.e
py_child ==
    SourceFile("child.py", TRUE, <<
    ClassDef(Constant("C"), Constant("B"), Absent,
        <<>>,
        <<FunctionDef("m", <<>>, <<Return(Attribute(Name("self"), "e"))>>, 5)>>)>>)

\*   class Order(models.Model):
\*       _name = 'A'
\*       r = fields.Many2one('B')
\*       x = fields.Char(related='r.e')
py_related_char ==
    SourceFile("related_char.py", TRUE, <<
    ClassDef(Constant("A"), Absent, Absent,
        <<FieldAssign("r", "Many2one", <<Constant("B")>>, EmptyDict, 4), FieldAssign("x", "Char", <<>>, ("related" :> Constant(<<"r", "e">>)), 5)>>,
        <<>>)>>)

\*   class Order(models.Model):
\*       _name = 'A'
\*       r = fields.Many2one(comodel_name='B')
\*       y = fields.Many2one(related='r.e')
py_related_m2o ==
    SourceFile("related_m2o.py", TRUE, <<
    ClassDef(Constant("A"), Absent, Absent,
        <<FieldAssign("r", "Many2one", <<>>, ("comodel_name" :> Constant("B")), 4), FieldAssign("y", "Many2one", <<>>, ("related" :> Constant(<<"r", "e">>)), 5)>>,
        <<>>)>>)

\*   class OrderExt(models.Model):
\*       _inherit = 'A'
\*       h = fields.Char()
\*       def k(self):
\*           self.h
\*       def m(self):
\*           pass
py_extension ==
    SourceFile("extension.py", TRUE, <<
    ClassDef(Absent, Constant("A"), Absent,
        <<FieldAssign("h", "Char", <<>>, EmptyDict, 4)>>,
        <<FunctionDef("k", <<>>, <<Expr(Attribute(Name("self"), "h"))>>, 5), FunctionDef("m", <<>>, <<Pass>>, 7)>>)>>)

\*   class Dyn(models.Model):
\*       _name = NAME
\*       _inherit = 'B'
\*       z = fields.Char()
py_dynamic ==
    SourceFile("dynamic.py", TRUE, <<
    ClassDef(Name("NAME"), Constant("B"), Absent,
        <<FieldAssign("z", "Char", <<>>, EmptyDict, 5)>>,
        <<>>)>>)

\*   class PartnerExt(models.Model):
\*       _inherit = ['B']
\*       @api.depends('g')
\*       def _compute_total(self):
\*           pass
\*       def act(self):
\*           pass
py_computed ==
    SourceFile("computed.py", TRUE, <<
    ClassDef(Absent, List(<<Constant("B")>>), Absent,
        <<>>,
        <<FunctionDef("_compute_total", <<Call(Attribute(Name("api"), "depends"), <<Constant("g")>>)>>, <<Pass>>, 5), FunctionDef("act", <<>>, <<Pass>>, 7)>>)>>)

\*   class Helper(object):
\*       def m(self):
\*           self.e
\*   class Listed(models.Model):
\*       _inherit = [BASE]
\*       g = fields.Char()
py_helper ==
    SourceFile("helper.py", TRUE, <<
    ClassDef(Absent, Absent, Absent,
        <<>>,
        <<FunctionDef("m", <<>>, <<Expr(Attribute(Name("self"), "e"))>>, 3)>>),
    ClassDef(Absent, List(<<Name("BASE")>>), Absent,
        <<FieldAssign("g", "Char", <<>>, EmptyDict, 7)>>,
        <<>>)>>)

\*   class Broken(models.Model:
\*       _name = 'B'
py_broken ==
    SourceFile("broken.py", FALSE, <<>>)

\*   class Child(models.Model):
\*       _name = 'C'
\*       _inherit = ['B', 'A']
\*       g = fields.Char()
\*       def act(self):
\*           pass
\*       def k(self):
\*           return self.act()
py_family ==
    SourceFile("family.py", TRUE, <<
    ClassDef(Constant("C"), List(<<Constant("B"), Constant("A")>>), Absent,
        <<FieldAssign("g", "Char", <<>>, EmptyDict, 5)>>,
        <<FunctionDef("act", <<>>, <<Pass>>, 6), FunctionDef("k", <<>>, <<Return(Call(Attribute(Name("self"), "act"), <<>>))>>, 8)>>)>>)

\*   class Order(models.Model):
\*       _name = 'A'
\*       _inherit = 'B'
\*       def m(self):
\*           pass
\*       def n(self):
\*           return self.q
\*   class Partner(models.Model):
\*       _name = 'B'
\*       _inherit = 'A'
\*       e = fields.Char()
\*       def m(self):
\*           return self.e
py_loop ==
    SourceFile("loop.py", TRUE, <<
    ClassDef(Constant("A"), Constant("B"), Absent,
        <<>>,
        <<FunctionDef("m", <<>>, <<Pass>>, 5), FunctionDef("n", <<>>, <<Return(Attribute(Name("self"), "q"))>>, 7)>>),
    ClassDef(Constant("B"), Constant("A"), Absent,
        <<FieldAssign("e", "Char", <<>>, EmptyDict, 12)>>,
        <<FunctionDef("m", <<>>, <<Return(Attribute(Name("self"), "e"))>>, 13)>>)>>)

\*   class Order(models.Model):
\*       _name = 'A'
\*       x = fields.Many2one(related='y.e')
\*       y = fields.Many2one(related='x.e')
py_related_loop ==
    SourceFile("related_loop.py", TRUE, <<
    ClassDef(Constant("A"), Absent, Absent,
        <<FieldAssign("x", "Many2one", <<>>, ("related" :> Constant(<<"y", "e">>)), 4), FieldAssign("y", "Many2one", <<>>, ("related" :> Constant(<<"x", "e">>)), 5)>>,
        <<>>)>>)

\*   <odoo>
\*   <record model="ir.ui.view" id="v1">
\*     <field name="model">B</field>
\*     <field name="arch" type="xml"><form><field name="g"/></form></field>
\*   </record></odoo>
xml_view_text ==
    XmlFile(TRUE, <<
    Record("ir.ui.view", "B", <<>>,
        Arch(<<Element("g", EmptyDict, Absent)>>, <<>>),
        Absent)>>)

\*   <odoo>
\*   <record model="ir.ui.view" id="v2">
\*     <field name="model_id" ref="m.model_A"/>
\*     <field name="arch" type="xml"><form>
\*       <field name="r" invisible="self.h"><tree><field name="e"/></tree></field>
\*       <button name="m" readonly="self.r.g"/>
\*     </form></field>
\*   </record></odoo>
xml_view_ref ==
    XmlFile(TRUE, <<
    Record("ir.ui.view", None, <<<<"m">>, <<"model", "A">>>>,
        Arch(<<Element("r", ("invisible" :> Source(TRUE, Module(<<Expr(Attribute(Name("self"), "h"))>>))), SubView(<<"e">>)), Element("e", EmptyDict, Absent)>>, <<Element("m", ("readonly" :> Source(TRUE, Module(<<Expr(Attribute(Attribute(Name("self"), "r"), "g"))>>))), Absent)>>),
        Absent)>>)

\*   <odoo>
\*   <record model="ir.cron" id="c1">
\*     <field name="model_id" ref="model_B"/>
\*     <field name="code">record.e</field>
\*   </record></odoo>
xml_cron_ok ==
    XmlFile(TRUE, <<
    Record("ir.cron", None, <<<<"model", "B">>>>,
        Absent,
        Source(TRUE, Module(<<Expr(Attribute(Name("record"), "e"))>>)))>>)

\*   <odoo>
\*   <record model="ir.cron" id="c2">
\*     <field name="model_id" ref="m.model_B"/>
\*     <field name="code">record.e +</field>
\*   </record>
\*   <record model="ir.ui.view" id="v3">
\*     <field name="model">B</field>
\*     <field name="arch" type="xml"><form><field name="g"/></form></field>
\*   </record></odoo>
xml_cron_bad ==
    XmlFile(TRUE, <<
    Record("ir.cron", None, <<<<"m">>, <<"model", "B">>>>,
        Absent,
        Source(FALSE, Pass)),
    Record("ir.ui.view", "B", <<>>,
        Arch(<<Element("g", EmptyDict, Absent)>>, <<>>),
        Absent)>>)

\*   <odoo><record model="ir.ui.view" id="v4"></odoo>
xml_malformed ==
    XmlFile(FALSE, <<>>)

\*   <odoo>
\*   <record model="ir.ui.view" id="v5">
\*     <field name="model_id" ref="m.model_B_line"/>
\*     <field name="arch" type="xml"><form><field name="e"/></form></field>
\*   </record>
\*   <record model="ir.rule" id="r1">
\*     <field name="model_id" ref="m.model_B"/>
\*   </record></odoo>
xml_view_unknown ==
    XmlFile(TRUE, <<
    Record("ir.ui.view", None, <<<<"m">>, <<"model", "B", "line">>>>,
        Arch(<<Element("e", EmptyDict, Absent)>>, <<>>),
        Absent),
    Record("ir.rule", None, <<<<"m">>, <<"model", "B">>>>,
        Absent,
        Absent)>>)

\*   <odoo>
\*   <record model="ir.ui.view" id="v6">
\*     <field name="model">C</field>
\*     <field name="arch" type="xml"><form>
\*       <field name="e" invisible="g ==" required="self.g"/>
\*       <button name="act"/>
\*     </form></field>
\*   </record></odoo>
xml_view_badattr ==
    XmlFile(TRUE, <<
    Record("ir.ui.view", "C", <<>>,
        Arch(<<Element("e", ("invisible" :> Source(FALSE, Pass)) @@ ("required" :> Source(TRUE, Module(<<Expr(Attribute(Name("self"), "g"))>>))), Absent)>>, <<Element("act", EmptyDict, Absent)>>),
        Absent)>>)

\*   <odoo>
\*   <record model="ir.actions.server" id="a1">
\*     <field name="model_id" ref="m.model_A"/>
\*     <field name="code">records.m()</field>
\*   </record></odoo>
xml_action ==
    XmlFile(TRUE, <<
    Record("ir.actions.server", None, <<<<"m">>, <<"model", "A">>>>,
        Absent,
        Source(TRUE, Module(<<Expr(Call(Attribute(Name("records"), "m"), <<>>))>>)))>>)

\*   <odoo>
\*   <record model="ir.ui.view" id="v7">
\*     <field name="model">A</field>
\*     <field name="arch" type="xml"><form><button name="m"/></form></field>
\*   </record></odoo>
xml_view_button ==
    XmlFile(TRUE, <<
    Record("ir.ui.view", "A", <<>>,
        Arch(<<>>, <<Element("m", EmptyDict, Absent)>>),
        Absent)>>)

\*   class Partner(models.Model):
\*       _name = 'B'
\*       _inherit = ['B', 'D']
\*       h = fields.Char()
py_selfext ==
    SourceFile("selfext.py", TRUE, <<
    ClassDef(Constant("B"), List(<<Constant("B"), Constant("D")>>), Absent,
        <<FieldAssign("h", "Char", <<>>, EmptyDict, 5)>>,
        <<>>)>>)

\*   class Grand(models.Model):
\*       _name = 'D'
\*       f = fields.Char()
\*       def act(self):
\*           pass
\*   class Parent(models.Model):
\*       _name = 'E'
\*       _inherit = 'D'
\*   class Kid(models.Model):
\*       _name = 'F'
\*       _inherit = 'E'
\*       def k(self):
\*           self.act()
\*           return self.f
py_lineage ==
    SourceFile("lineage.py", TRUE, <<
    ClassDef(Constant("D"), Absent, Absent,
        <<FieldAssign("f", "Char", <<>>, EmptyDict, 4)>>,
        <<FunctionDef("act", <<>>, <<Pass>>, 5)>>),
    ClassDef(Constant("E"), Constant("D"), Absent,
        <<>>,
        <<>>),
    ClassDef(Constant("F"), Constant("E"), Absent,
        <<>>,
        <<FunctionDef("k", <<>>, <<Expr(Call(Attribute(Name("self"), "act"), <<>>)), Return(Attribute(Name("self"), "f"))>>, 13)>>)>>)

\*   class Dyn(models.Model):
\*       _name = NAME
\*       w = fields.Char()
\*   class Multi(models.Model):
\*       _inherit = ['B', 'A']
\*       v = fields.Char()
\*       def n(self):
\*           pass
py_unsupported ==
    SourceFile("unsupported.py", TRUE, <<
    ClassDef(Name("NAME"), Absent, Absent,
        <<FieldAssign("w", "Char", <<>>, EmptyDict, 4)>>,
        <<>>),
    ClassDef(Absent, List(<<Constant("B"), Constant("A")>>), Absent,
        <<FieldAssign("v", "Char", <<>>, EmptyDict, 7)>>,
        <<FunctionDef("n", <<>>, <<Pass>>, 8)>>)>>)

\*   <odoo>
\*   <record model="ir.cron" id="c3">
\*     <field name="code">record.e</field>
\*   </record>
\*   <record model="ir.actions.server" id="a2">
\*     <field name="model_id" ref="m.model_B_line"/>
\*     <field name="code">record.e +</field>
\*   </record>
\*   <record model="ir.ui.view" id="v8">
\*     <field name="arch" type="xml"><form><field name="e"/><button name="m"/></form></field>
\*   </record>
\*   <record model="ir.ui.view" id="v9">
\*     <field name="model">B</field>
\*     <field name="arch" type="xml"><form><field name="g"/></form></field>
\*   </record></odoo>
xml_unknown_targets ==
    XmlFile(TRUE, <<
    Record("ir.cron", None, <<>>,
        Absent,
        Source(TRUE, Module(<<Expr(Attribute(Name("record"), "e"))>>))),
    Record("ir.actions.server", None, <<<<"m">>, <<"model", "B", "line">>>>,
        Absent,
        Source(FALSE, Pass)),
    Record("ir.ui.view", None, <<>>,
        Arch(<<Element("e", EmptyDict, Absent)>>, <<Element("m", EmptyDict, Absent)>>),
        Absent),
    Record("ir.ui.view", "B", <<>>,
        Arch(<<Element("g", EmptyDict, Absent)>>, <<>>),
        Absent)>>)

\*   <odoo>
\*   <record model="ir.ui.view" id="v10">
\*     <field name="model">F</field>
\*     <field name="arch" type="xml"><form><field name="f"/><button name="act"/></form></field>
\*   </record></odoo>
xml_view_kid ==
    XmlFile(TRUE, <<
    Record("ir.ui.view", "F", <<>>,
        Arch(<<Element("f", EmptyDict, Absent)>>, <<Element("act", EmptyDict, Absent)>>),
        Absent)>>)

\*   class Kid(models.Model):
\*       _name = 'K'
\*       r = fields.Many2one()
\*   class Base(models.Model):
\*       _name = 'G'
\*       r = fields.Many2one('B')
\*   class Mid(models.Model):
\*       _name = 'H'
\*       _inherit = 'G'
\*       r = fields.Many2one()
\*   class KidExt(models.Model):
\*       _name = 'K'
\*       _inherit = ['K', 'H']
py_rel_chain ==
    SourceFile("rel_chain.py", TRUE, <<
    ClassDef(Constant("K"), Absent, Absent,
        <<FieldAssign("r", "Many2one", <<>>, EmptyDict, 4)>>,
        <<>>),
    ClassDef(Constant("G"), Absent, Absent,
        <<FieldAssign("r", "Many2one", <<Constant("B")>>, EmptyDict, 7)>>,
        <<>>),
    ClassDef(Constant("H"), Constant("G"), Absent,
        <<FieldAssign("r", "Many2one", <<>>, EmptyDict, 11)>>,
        <<>>),
    ClassDef(Constant("K"), List(<<Constant("K"), Constant("H")>>), Absent,
        <<>>,
        <<>>)>>)

\*   class KidAct(models.Model):
\*       _inherit = 'F'
\*       def act(self):
\*           pass
py_kid_act ==
    SourceFile("kid_act.py", TRUE, <<
    ClassDef(Absent, Constant("F"), Absent,
        <<>>,
        <<FunctionDef("act", <<>>, <<Pass>>, 4)>>)>>)

\*   <odoo>
\*   <record model="ir.ui.view" id="v11">
\*     <field name="model">B</field>
\*     <field name="arch" type="xml"><form>
\*       <field name="e" invisible="self.g"/>
\*       <field name="g" required="self.h"/>
\*     </form></field>
\*   </record>
\*   <record model="ir.ui.view" id="v12">
\*     <field name="model">C</field>
\*     <field name="arch" type="xml"><form><field name="e" readonly="g == 1"/></form></field>
\*   </record></odoo>
xml_view_attrs ==
    XmlFile(TRUE, <<
    Record("ir.ui.view", "B", <<>>,
        Arch(<<Element("e", ("invisible" :> Source(TRUE, Module(<<Expr(Attribute(Name("self"), "g"))>>))), Absent), Element("g", ("required" :> Source(TRUE, Module(<<Expr(Attribute(Name("self"), "h"))>>))), Absent)>>, <<>>),
        Absent),
    Record("ir.ui.view", "C", <<>>,
        Arch(<<Element("e", ("readonly" :> Source(TRUE, Module(<<Expr(Compare(Name("g"), <<Num(1)>>))>>))), Absent)>>, <<>>),
        Absent)>>)

\* the source files a project is made of
PyFiles ==
    {py_partner, py_order_chain, py_order_mapped, py_child, py_related_char,
     py_related_m2o, py_extension, py_dynamic, py_computed, py_helper,
     py_broken, py_family, py_loop, py_related_loop, py_selfext, py_lineage,
     py_unsupported, py_rel_chain, py_kid_act}

\* the declarative files a project is made of
XmlFiles ==
    {xml_view_text, xml_view_ref, xml_cron_ok, xml_cron_bad, xml_malformed,
     xml_view_unknown, xml_view_badattr, xml_action, xml_view_button,
     xml_unknown_targets, xml_view_kid, xml_view_attrs}

\* the lists of at most n elements of S
RECURSIVE SeqsUpTo(_, _)
SeqsUpTo(S, n) ==
    IF n = 0 THEN {<<>>}
    ELSE LET shorter == SeqsUpTo(S, n - 1)
         IN shorter \cup {Append(q, x) : q \in {t \in shorter : Len(t) = n - 1}, x \in S}

-----------------------------------------------------------------------------
(* src/core.py: the ModelValue objects and the references between them.      *)
(* refs = [registry, heap]: heap is the sequence of the ModelValue objects    *)
(* created so far, a reference is the position of an object in it, registry   *)
(* is definitions_map as name -> reference; inherited_models and child_models *)
(* of an object are dicts name -> reference.  The references of a set of new  *)
(* placeholders are given in one order: another order renames references.    *)

NoRefs == [registry |-> EmptyDict, heap |-> <<>>]

\* the reference None
NoneRef == 0

\* ModelValue(model_name, inherited_models=inherited_models), not yet referenced
ModelValue_object(model_name, inherited_models) ==
    [name |-> model_name, inherited_models |-> inherited_models,
     child_models |-> EmptyDict]

\* d.update(other) and d[key] = value for dicts name -> reference
update(d, other) == other @@ d

\* the loop "Resolve inherited models from existing map" of _initialize_model;
\* s = [refs, inherited]
RECURSIVE resolve_inherited_refs(_, _, _)
resolve_inherited_refs(s, names, model_name) ==
    IF names = <<>> THEN s
    ELSE LET inherited_name == Head(names) IN
         resolve_inherited_refs(
            IF inherited_name = model_name THEN s
            ELSE IF inherited_name \in DOMAIN s.refs.registry
            THEN [s EXCEPT !.inherited =
                        update(@, inherited_name :> s.refs.registry[inherited_name])]
            ELSE LET placeholder == Len(s.refs.heap) + 1 IN
                 [refs |-> [registry |-> update(s.refs.registry,
                                                inherited_name :> placeholder),
                            heap |-> Append(s.refs.heap,
                                            ModelValue_object(inherited_name, EmptyDict))],
                  inherited |-> update(s.inherited, inherited_name :> placeholder)],
            Tail(names), model_name)

\* OdooAnalyzer._initialize_model: [status, model, refs]
_initialize_model_refs(class_def, refs) ==
    LET name_node == class_def.name_node
        inherit_node == class_def.inherit_node
    IN
    IF name_node.k = "Constant"
    THEN LET s == resolve_inherited_refs([refs |-> refs, inherited |-> EmptyDict],
                                         SetToSeq(inherited_model_names(class_def)),
                                         name_node.value)
         IN [status |-> "model",
             model |-> ModelValue_object(name_node.value, s.inherited),
             refs |-> s.refs]
    ELSE IF inherit_node.k = "Constant"
    THEN [status |-> "model", model |-> ModelValue_object(inherit_node.value, EmptyDict),
          refs |-> refs]
    ELSE IF inherit_node.k = "List" /\ Len(inherit_node.elts) = 1
    THEN IF inherit_node.elts[1].k = "Constant"
         THEN [status |-> "model",
               model |-> ModelValue_object(inherit_node.elts[1].value, EmptyDict),
               refs |-> refs]
         ELSE [status |-> "raise", model |-> None, refs |-> refs]
    ELSE [status |-> "none", model |-> None, refs |-> refs]

\* ModelValue.__ior__: the links of other are added to those of self
ModelValue_object_ior(self, other) ==
    [self EXCEPT !.inherited_models = update(@, other.inherited_models),
                 !.child_models = update(@, other.child_models)]

\* the classes of OdooAnalyzer._initialize_definitions_map, up to the first
\* that raises
RECURSIVE declare_classes_refs(_, _)
declare_classes_refs(classes, refs) ==
    IF classes = <<>> THEN refs
    ELSE LET r == _initialize_model_refs(Head(classes), refs) IN
         IF r.status = "raise" THEN r.refs
         ELSE IF r.status = "none" THEN declare_classes_refs(Tail(classes), r.refs)
         ELSE declare_classes_refs(
                Tail(classes),
                IF r.model.name \in DOMAIN r.refs.registry
                THEN [r.refs EXCEPT !.heap[r.refs.registry[r.model.name]] =
                                        ModelValue_object_ior(@, r.model)]
                ELSE [registry |-> update(r.refs.registry,
                                          r.model.name :> Len(r.refs.heap) + 1),
                      heap |-> Append(r.refs.heap, r.model)])

\* OdooAnalyzer._initialize_definitions_map
_initialize_definitions_map_refs(file, refs) ==
    IF ~file.parses THEN refs ELSE declare_classes_refs(file.classes, refs)

\* the values of a dict name -> reference
values(d) == {d[k] : k \in DOMAIN d}

\* OdooAnalyzer._fill_definitions_map, "1. Resolve Children": every parent
\* link of a registered model becomes definitions_map.get(name), then every
\* registered model becomes a child of the objects its parent links refer to
_fill_definitions_map_refs(refs) ==
    LET registered_refs == values(refs.registry)
        linked == [ref \in DOMAIN refs.heap |->
                    IF ref \in registered_refs
                    THEN [refs.heap[ref] EXCEPT !.inherited_models =
                            [inherited_name \in DOMAIN @ |->
                                IF inherited_name \in DOMAIN refs.registry
                                THEN refs.registry[inherited_name] ELSE NoneRef]]
                    ELSE refs.heap[ref]]
        children_of(parent_model) ==
            {model_name \in DOMAIN refs.registry :
                parent_model \in values(linked[refs.registry[model_name]].inherited_models)}
    IN [refs EXCEPT !.heap =
            [ref \in DOMAIN refs.heap |->
                [linked[ref] EXCEPT !.child_models =
                    update(@, [model_name \in children_of(ref) |->
                                    refs.registry[model_name]])]]]

-----------------------------------------------------------------------------
(* src/core.py: OdooAnalyzer.analyze and OdooAnalyzer.report *)

\* the control flow of analyze() with the two usage passes exchanged
analyze_pc_methods_first(phase, n, npy, nxml) ==
    CASE phase = "declare" -> IF n < npy THEN "declare" ELSE "resolve"
      [] phase = "resolve" ->
            IF npy > 0 THEN "methods" ELSE IF nxml > 0 THEN "xml" ELSE "done"
      [] phase = "methods" ->
            IF n < npy THEN "methods" ELSE IF nxml > 0 THEN "xml" ELSE "done"
      [] phase = "xml" -> IF n < nxml THEN "xml" ELSE "done"

\* The control flow of analyze(): the loop that runs after n files of the loop
\* phase have been processed, for npy source files and nxml declarative files.
analyze_pc(phase, n, npy, nxml) ==
    CASE phase = "declare" -> IF n < npy THEN "declare" ELSE "resolve"
      [] phase = "resolve" ->
            IF nxml > 0 THEN "xml" ELSE IF npy > 0 THEN "methods" ELSE "done"
      [] phase = "xml" ->
            IF n < nxml THEN "xml" ELSE IF npy > 0 THEN "methods" ELSE "done"
      [] phase = "methods" -> IF n < npy THEN "methods" ELSE "done"

\* the step of analyze() that follows n processed files of phase
advance(phase, n) ==
    LET next == analyze_pc(phase, n, Len(python_file_paths), Len(xml_file_paths))
    IN /\ pc' = next
       /\ idx' = IF next = phase THEN n ELSE 0

InitWith(py_files, xml_files) ==
    /\ python_file_paths \in SeqsUpTo(py_files, MaxPyFiles)
    /\ xml_file_paths \in SeqsUpTo(xml_files, MaxXmlFiles)
    /\ definitions_map = EmptyDict
    /\ map_order = <<>>
    /\ pc = analyze_pc("declare", 0, Len(python_file_paths), Len(xml_file_paths))
    /\ idx = 0
    /\ error = None
    /\ log = <<>>
    /\ reported = {}
    /\ references = NoRefs
    /\ collector = None
    /\ calls = 0

Init == InitWith(PyFiles, XmlFiles)

\* analyze, "1. Parse Python files to build models": one file
Declare ==
    /\ pc = "declare"
    /\ \E out \in _initialize_definitions_map(python_file_paths[idx + 1],
                                              definitions_map, map_order) :
        /\ definitions_map' = out.dm
        /\ map_order' = out.order
        /\ log' = Append(log, <<"declare", idx + 1,
                                IF out.raised THEN "logged" ELSE "ok">>)
    /\ references' = _initialize_definitions_map_refs(python_file_paths[idx + 1],
                                                      references)
    /\ advance("declare", idx + 1)
    /\ UNCHANGED <<python_file_paths, xml_file_paths, error, reported, calls, collector>>

\* analyze, "2. Link relationships"
Resolve ==
    /\ pc = "resolve"
    /\ \E r \in {_fill_definitions_map(definitions_map, map_order)} :
        /\ definitions_map' = r.dm
        /\ IF r.raised
           THEN /\ pc' = "aborted" /\ idx' = 0 /\ error' = "RecursionError"
           ELSE /\ advance("resolve", 0) /\ error' = error
        /\ log' = Append(log, <<"resolve", 1, IF r.raised THEN "raised" ELSE "ok">>)
    /\ references' = _fill_definitions_map_refs(references)
    /\ UNCHANGED <<python_file_paths, xml_file_paths, map_order, reported, calls, collector>>

\* analyze, "3. Parse XML files for usage": one file; only ParseError is caught
ParseXml ==
    /\ pc = "xml"
    /\ \E r \in {_fill_fields_from_xml_file(xml_file_paths[idx + 1], definitions_map)} :
        /\ definitions_map' = r.dm
        /\ IF r.raised \in {None, "ParseError"}
           THEN /\ advance("xml", idx + 1) /\ error' = error
           ELSE /\ pc' = "aborted" /\ idx' = idx /\ error' = r.raised
        /\ log' = Append(log, <<"xml", idx + 1,
                                IF r.raised = None THEN "ok"
                                ELSE IF r.raised = "ParseError" THEN "logged"
                                ELSE "raised">>)
    /\ UNCHANGED <<python_file_paths, xml_file_paths, map_order, reported, references,
                   calls, collector>>

\* analyze, "4. Parse Python Method Bodies for usage": one file
ParseMethods ==
    /\ pc = "methods"
    /\ \E out \in _fill_field_usage_in_methods(python_file_paths[idx + 1],
                                               definitions_map, map_order) :
        /\ definitions_map' = out.dm
        /\ map_order' = out.order
        /\ log' = Append(log, <<"methods", idx + 1,
                                IF out.raised THEN "logged" ELSE "ok">>)
    /\ advance("methods", idx + 1)
    /\ UNCHANGED <<python_file_paths, xml_file_paths, error, reported, references,
                   calls, collector>>

\* report(), which main() calls once analyze() has returned
Report ==
    /\ pc = "done"
    /\ reported' = report(definitions_map)
    /\ pc' = "reported"
    /\ UNCHANGED <<python_file_paths, xml_file_paths, definitions_map, map_order,
                   idx, error, log, references, calls, collector>>

Next == Declare \/ Resolve \/ ParseXml \/ ParseMethods \/ Report

Spec == Init /\ [][Next]_vars

-----------------------------------------------------------------------------
(* src/odecromancy/models.py used directly: any sequence of usage-recording  *)
(* calls on the ModelValue objects of a resolved registry                   *)

\* the registries that declaration extraction can leave after the files
RECURSIVE declared(_, _)
declared(files, registries) ==
    IF files = <<>> THEN registries
    ELSE declared(Tail(files),
                  UNION {_initialize_definitions_map(Head(files), s.dm, s.order) :
                            s \in registries})

\* the projects whose registries the calls are made on: a parent with a child,
\* a family with a shared method, two models that name each other as parent,
\* and a lineage whose first and last model declare the same method
UsageProjects ==
    {<<py_partner, py_child>>, <<py_partner, py_computed, py_family>>, <<py_loop>>,
     <<py_lineage, py_kid_act>>}

\* the confidences of the calls
Confidences == {0, 40, 100}

\* the names the calls are made with: every declared name and an undeclared one
Names ==
    UNION {DOMAIN definitions_map[m].fields \cup DOMAIN definitions_map[m].methods :
            m \in DOMAIN definitions_map} \cup {"q"}

InitUsage ==
    /\ python_file_paths \in UsageProjects
    /\ xml_file_paths = <<>>
    /\ \E s \in declared(python_file_paths,
                         {[dm |-> EmptyDict, order |-> <<>>, raised |-> FALSE]}) :
        /\ map_order = s.order
        /\ definitions_map = _fill_definitions_map(s.dm, s.order).dm
    /\ pc = "api"
    /\ idx = 0
    /\ error = None
    /\ log = <<>>
    /\ reported = {}
    /\ references = NoRefs
    /\ collector = None
    /\ calls = 0

\* what every call leaves alone
called ==
    /\ calls' = calls + 1
    /\ UNCHANGED <<python_file_paths, xml_file_paths, map_order, pc, idx, log,
                   reported, references, collector>>

\* model.field_used(field_name, confidence)
FieldUsed ==
    /\ pc = "api" /\ calls < MaxCalls
    /\ \E m \in DOMAIN definitions_map, f \in Names, c \in Confidences :
        definitions_map' = field_used(definitions_map, m, f, c)
    /\ error' = None
    /\ called

\* model.field_used_multi(fields, confidence)
FieldUsedMulti ==
    /\ pc = "api" /\ calls < MaxCalls
    /\ \E m \in DOMAIN definitions_map, f \in Names, g \in Names \ {"q"},
          c \in Confidences \ {0} :
        definitions_map' = field_used_multi(definitions_map, m, <<f, g>>, c)
    /\ error' = None
    /\ called

\* model.field_used_in_view(field_name)
FieldUsedInView ==
    /\ pc = "api" /\ calls < MaxCalls
    /\ \E m \in DOMAIN definitions_map, f \in Names :
        definitions_map' = field_used_in_view(definitions_map, m, f)
    /\ error' = None
    /\ called

\* model.method_used(method_name, confidence); a RecursionError reaches the caller
MethodUsed ==
    /\ pc = "api" /\ calls < MaxCalls
    /\ \E m \in DOMAIN definitions_map, f \in Names, c \in Confidences :
        LET r == method_used([dm |-> definitions_map, raised |-> FALSE], m, f, c) IN
        /\ definitions_map' = r.dm
        /\ error' = IF r.raised THEN "RecursionError" ELSE None
    /\ called

\* model.method_used_child(method_name)
MethodUsedChild ==
    /\ pc = "api" /\ calls < MaxCalls
    /\ \E m \in DOMAIN definitions_map, f \in Names :
        LET r == method_used_child([dm |-> definitions_map, raised |-> FALSE], m, f, 1) IN
        /\ definitions_map' = r.dm
        /\ error' = IF r.raised THEN "RecursionError" ELSE None
    /\ called

NextUsage ==
    FieldUsed \/ FieldUsedMulti \/ FieldUsedInView \/ MethodUsed \/ MethodUsedChild

SpecUsage == InitUsage /\ [][NextUsage]_vars

-----------------------------------------------------------------------------
(* src/odecromancy/models.py used directly: merges (|=) into the ModelValue  *)
(* and MethodValue objects of a registry, after usage-recording calls        *)

\* the source files whose declarations are merged
MergeFiles ==
    {py_partner, py_child, py_computed, py_family, py_extension, py_loop}

\* the ModelValue objects that declaration extraction builds from one file
Declarations ==
    UNION {UNION {{s.dm[n] : n \in DOMAIN s.dm} :
                    s \in declared(<<file>>, {[dm |-> EmptyDict, order |-> <<>>,
                                               raised |-> FALSE]})} :
            file \in MergeFiles}

\* model after each of its fields and methods was used with confidence
used_throughout(model, confidence) ==
    [model EXCEPT
        !.fields = [f \in DOMAIN @ |->
                        [@[f] EXCEPT !.unused_percentage = reduce(@, confidence)]],
        !.methods = [m \in DOMAIN @ |->
                        [@[m] EXCEPT !.unused_percentage = reduce(@, confidence)]]]

\* the models that are merged into the registry
OtherModels ==
    {used_throughout(model, confidence) :
        model \in Declarations, confidence \in Confidences}

\* the methods that are merged into a method of the registry
OtherMethods ==
    UNION {{model.methods[m] : m \in DOMAIN model.methods} : model \in OtherModels}

\* objects of other kinds
OtherObjects ==
    {[kind |-> "NoneType"], [kind |-> "dict"], FieldValue("e", {<<"partner.py", 3>>}),
     MethodValue("m", Pass, {<<"child.py", 5>>}), ModelValue("B", <<>>)}

\* _initialize_definitions_map: the registration of model,
\* "if self.definitions_map.get(model.name): ... |= model, else: ... = model"
registered(dm, order, model) ==
    IF model.name \in DOMAIN dm
    THEN [dm |-> [dm EXCEPT ![model.name] = ModelValue__ior__(@, model).value],
          order |-> order]
    ELSE [dm |-> [n \in DOMAIN dm \cup {model.name} |->
                    IF n = model.name THEN model ELSE dm[n]],
          order |-> Append(order, model.name)]

\* what every merge leaves alone; entry describes the merge, the last call
merged(entry) ==
    /\ calls' = calls + 1
    /\ log' = <<entry>>
    /\ pc' = "merged"
    /\ UNCHANGED <<python_file_paths, xml_file_paths, idx, reported, references, collector>>

\* the registration of a further declaration other, whose parents are
\* registered as _initialize_model leaves them
ModelMerged ==
    /\ pc = "api" /\ calls < MaxCalls
    /\ \E other \in OtherModels :
        /\ Range(other.inherited_models) \subseteq DOMAIN definitions_map
        /\ \E r \in {registered(definitions_map, map_order, other)} :
            /\ definitions_map' = r.dm
            /\ map_order' = r.order
        /\ error' = None
        /\ merged([call |-> "ModelValue.__ior__", self |-> other.name,
                   other |-> other, itself |-> FALSE])

\* model |= other for a model of the registry, other the model itself or an
\* object that is no ModelValue
ModelIor ==
    /\ pc = "api" /\ calls < MaxCalls
    /\ \E n \in DOMAIN definitions_map :
        \E other \in {definitions_map[n]}
                        \cup {obj \in OtherObjects : ~isinstance(obj, "ModelValue")} :
        /\ \E r \in {ModelValue__ior__(definitions_map[n], other)} :
            /\ definitions_map' = [definitions_map EXCEPT ![n] = r.value]
            /\ error' = r.raised
        /\ merged([call |-> "ModelValue.__ior__", self |-> n,
                   other |-> other, itself |-> other = definitions_map[n]])
    /\ UNCHANGED map_order

\* method |= other for a method of a model of the registry, other a method of
\* the same name or an object that is no MethodValue
MethodIor ==
    /\ pc = "api" /\ calls < MaxCalls
    /\ \E n \in DOMAIN definitions_map :
        \E m \in DOMAIN definitions_map[n].methods :
        \E other \in {method \in OtherMethods : method.name = m}
                        \cup {obj \in OtherObjects : ~isinstance(obj, "MethodValue")} :
        /\ \E r \in {MethodValue__ior__(definitions_map[n].methods[m], other)} :
            /\ definitions_map' = [definitions_map EXCEPT ![n].methods[m] = r.value]
            /\ error' = r.raised
        /\ merged([call |-> "MethodValue.__ior__", self |-> <<n, m>>,
                   other |-> other, itself |-> FALSE])
    /\ UNCHANGED map_order

NextMerge ==
    FieldUsed \/ MethodUsed \/ ModelMerged \/ ModelIor \/ MethodIor

SpecMerge == InitUsage /\ [][NextMerge]_vars

-----------------------------------------------------------------------------
(* src/odecromancy/visitors.py used directly: one FieldCollector that visits *)
(* statement after statement                                                  *)

\* the project whose registry the walks look names up in
WalkProject == <<py_partner, py_order_chain>>

\* statements whose accesses start at a bound name
BoundStatements ==
    {Expr(Attribute(Name("self"), "r")),
     Expr(Attribute(Attribute(Name("self"), "r"), "e")),
     Assign(<<Name("p")>>, Attribute(Name("self"), "r")),
     For(Name("o"), Name("self"), <<Expr(Attribute(Name("o"), "g"))>>, <<>>)}

\* accesses and chained accesses whose root name foo is bound nowhere
UnboundAccesses ==
    {Attribute(Name("foo"), "e"),
     Attribute(Attribute(Name("foo"), "bar"), "e"),
     Attribute(Attribute(Name("foo"), "bar"), "r"),
     Attribute(Call(Attribute(Name("foo"), "bar"), <<>>), "g"),
     Call(Attribute(Attribute(Name("foo"), "bar"), "m"), <<>>)}

\* the statement that holds the statements body: they alone, or in a loop
Wraps == {"module", "loop"}

Wrapped(wrap, body) ==
    IF wrap = "loop" THEN For(Name("o"), Name("self"), <<Pass>> \o body, <<>>)
    ELSE Module(<<Pass>> \o body)

InitWalk ==
    /\ python_file_paths = WalkProject
    /\ xml_file_paths = <<>>
    /\ \E s \in declared(python_file_paths,
                         {[dm |-> EmptyDict, order |-> <<>>, raised |-> FALSE]}) :
        /\ map_order = s.order
        /\ definitions_map = _fill_definitions_map(s.dm, s.order).dm
    /\ \E model_name \in DOMAIN definitions_map :
        collector \in {FieldCollector(model_name, <<>>),
                     FieldCollector(model_name, code_context(model_name))}
    /\ pc = "walk"
    /\ idx = 0
    /\ error = None
    /\ log = <<>>
    /\ reported = {}
    /\ references = NoRefs
    /\ calls = 0

\* visitor.visit(node) for the FieldCollector visitor; entry describes node
visited(node, entry) ==
    /\ collector' = visit(definitions_map, collector, node)
    /\ log' = <<entry>>
    /\ calls' = calls + 1
    /\ UNCHANGED <<python_file_paths, xml_file_paths, definitions_map, map_order,
                   pc, idx, error, reported, references>>

\* the visit of a statement with bound names
VisitBound ==
    /\ pc = "walk" /\ calls < MaxCalls /\ collector.raised = None
    /\ \E node \in BoundStatements : visited(node, [wrap |-> "bound", access |-> node])

\* the visit of an access with an unbound root, alone or in a loop
VisitUnbound ==
    /\ pc = "walk" /\ calls < MaxCalls /\ collector.raised = None
    /\ \E wrap \in Wraps, access \in UnboundAccesses :
        visited(Wrapped(wrap, <<Expr(access)>>), [wrap |-> wrap, access |-> access])

\* chained accesses b.r.f through a field r of the model bound to b
ChainedAccesses ==
    {Attribute(Attribute(Name("self"), "r"), "e"),
     Attribute(Attribute(Name("self"), "r"), "g"),
     Attribute(Attribute(Name("records"), "r"), "e"),
     Attribute(Attribute(Name("self"), "e"), "g")}

\* the visit of an expression statement that is a chained access
VisitChained ==
    /\ pc = "walk" /\ calls < MaxCalls /\ collector.raised = None
    /\ \E access \in ChainedAccesses :
        visited(Expr(access), [wrap |-> "chain", access |-> access])

\* self.env['B']
EnvModel(model_name) ==
    Subscript(Attribute(Name("self"), "env"), Constant(model_name))

\* X.mapped('<field_name>')
Mapped(value, field_name) ==
    Call(Attribute(value, "mapped"), <<Constant(field_name)>>)

\* calls: of a model looked up by name, bulk calls and chains of them, and
\* calls that have nothing to do with them
CallExpressions ==
    {Call(Attribute(EnvModel("B"), "search"), <<List(<<>>)>>),
     Call(Attribute(EnvModel("A"), "browse"), <<>>),
     Mapped(Name("self"), "r"),
     Mapped(Mapped(Name("self"), "r"), "g"),
     Mapped(Mapped(Name("records"), "r"), "e"),
     Call(Attribute(Mapped(Name("self"), "r"), "m"), <<>>),
     Mapped(Name("foo"), "e"),
     Call(Attribute(Name("self"), "m"), <<>>)}

\* the visit of an expression statement that is a call
VisitCall ==
    /\ pc = "walk" /\ calls < MaxCalls /\ collector.raised = None
    /\ \E access \in CallExpressions :
        visited(Expr(access), [wrap |-> "call", access |-> access])

\* lambda expressions, alone and as the argument of a bulk call
LambdaExpressions ==
    {Lambda(<<"l">>, Attribute(Name("l"), "g")),
     Lambda(<<"l">>, Attribute(Name("l"), "r")),
     Lambda(<<"l">>, Attribute(Attribute(Name("l"), "r"), "e")),
     Lambda(<<"l">>, Call(Attribute(Name("l"), "m"), <<>>)),
     Lambda(<<>>, Attribute(Name("self"), "r"))}

\* the visit of a lambda expression
VisitLambda ==
    /\ pc = "walk" /\ calls < MaxCalls /\ collector.raised = None
    /\ \E access \in LambdaExpressions :
        visited(Expr(access), [wrap |-> "lambda", access |-> access])

\* for loops and list comprehensions
ScopedStatements ==
    {For(Name("o"), Name("self"),
         <<Expr(Attribute(Attribute(Name("o"), "r"), "e"))>>, <<>>),
     For(Name("o"), Attribute(Name("self"), "r"),
         <<Expr(Attribute(Name("o"), "g"))>>, <<>>),
     For(Name("o"), Attribute(Call(Attribute(Name("self"), "m"), <<>>), "e"),
         <<Pass>>, <<>>),
     Expr(ListComp(Attribute(Name("o"), "g"),
                   <<comprehension(Name("o"), Attribute(Name("self"), "r"),
                                   <<Attribute(Name("o"), "e")>>)>>)),
     Expr(ListComp(Attribute(Call(Attribute(Name("self"), "m"), <<>>), "e"),
                   <<comprehension(Name("o"), Name("self"), <<>>)>>)),
     For(Name("env_call"), Name("self"),
         <<Expr(Call(Attribute(Name("env_call"), "m"), <<>>))>>, <<>>)}

\* the visit of a for loop or of a comprehension
VisitScoped ==
    /\ pc = "walk" /\ calls < MaxCalls /\ collector.raised = None
    /\ \E node \in ScopedStatements :
        visited(node, [wrap |-> "scoped", access |-> node])

\* x = self.env['<model_name>'].<method>(...)
AssignEnv(target_name, model_name, method_name) ==
    Assign(<<Name(target_name)>>,
           Call(Attribute(EnvModel(model_name), method_name), <<List(<<>>)>>))

\* bodies of a scope in which x is assigned self.env['B'].<method>() and
\* accessed in a later statement: right after, after a loop, and after a loop
\* that holds the assignment
ScopeBodies ==
    {[body |-> <<AssignEnv("x", "B", "search"), Expr(Attribute(Name("x"), "e"))>>,
      model |-> "B", field |-> "e"],
     [body |-> <<AssignEnv("x", "B", "browse"),
                 For(Name("o"), Name("self"), <<Pass>>, <<>>),
                 Expr(Attribute(Name("x"), "g"))>>,
      model |-> "B", field |-> "g"],
     [body |-> <<AssignEnv("x", "A", "create"),
                 Expr(Attribute(Attribute(Name("x"), "r"), "e")),
                 Expr(Attribute(Name("x"), "r"))>>,
      model |-> "A", field |-> "r"],
     [body |-> <<For(Name("o"), Name("self"), <<AssignEnv("x", "B", "search")>>, <<>>),
                 Expr(Attribute(Name("x"), "e"))>>,
      model |-> "B", field |-> "e"]}

\* the visit of the body of a scope
VisitScope ==
    /\ pc = "walk" /\ calls < MaxCalls /\ collector.raised = None
    /\ \E scope \in ScopeBodies :
        visited(Module(scope.body),
                [wrap |-> "scope", access |-> Module(scope.body),
                 model |-> scope.model, field |-> scope.field])

NextWalk ==
    \/ VisitBound
    \/ VisitUnbound
    \/ VisitChained
    \/ VisitCall
    \/ VisitLambda
    \/ VisitScoped
    \/ VisitScope

SpecWalk == InitWalk /\ [][NextWalk]_vars

-----------------------------------------------------------------------------
(* Properties *)

\* the usage scores of the registry dm: <<model, "field" or "method", name>> -> score
Scored(dm) ==
    UNION {{<<m, "field", f>> : f \in DOMAIN dm[m].fields}
           \cup {<<m, "method", f>> : f \in DOMAIN dm[m].methods} : m \in DOMAIN dm}

Score(dm, entry) ==
    IF entry[2] = "field" THEN dm[entry[1]].fields[entry[3]].unused_percentage
    ELSE dm[entry[1]].methods[entry[3]].unused_percentage

\* C1: whatever usage-recording calls (field_used, field_used_multi,
\* field_used_in_view, method_used, method_used_child) are made on a registry,
\* with confidences between 0 and 100, every usage score is between 0 and 100
\* and no call raises the score of any field or method.
C1_ScoresMonotoneAndClamped ==
    /\ \A entry \in Scored(definitions_map) : Score(definitions_map, entry) \in 0..100
    /\ [][\A entry \in Scored(definitions_map) :
            /\ entry \in Scored(definitions_map')
            /\ Score(definitions_map', entry) \in 0..100
            /\ Score(definitions_map', entry) <= Score(definitions_map, entry)]_vars

\* C1 happens: after several calls one score was lowered in part, another to 0
C1_Witness ==
    /\ pc = "api" /\ calls >= 2
    /\ \E a, b \in Scored(definitions_map) :
        /\ Score(definitions_map, a) \in 1..99
        /\ Score(definitions_map, b) = 0

\* the nodes directly below a node of a syntax tree
Parts(node) ==
    CASE node.k = "For" -> <<node.target, node.iter>> \o node.body \o node.orelse
      [] node.k = "Assign" -> node.targets \o <<node.value>>
      [] node.k = "ListComp" -> <<node.elt>> \o node.generators
      [] node.k = "comprehension" -> <<node.target, node.iter>> \o node.ifs
      [] OTHER -> children(node)

\* the nodes of a syntax tree
RECURSIVE Subnodes(_)
Subnodes(node) ==
    {node} \cup UNION {Subnodes(Parts(node)[i]) : i \in 1..Len(Parts(node))}

\* the tree mentions name: as an attribute or as a string literal
Mentions(tree, name) ==
    \E n \in Subnodes(tree) :
        \/ n.k = "Attribute" /\ n.attr = name
        \/ n.k = "Constant" /\ n.is_str /\ n.value = name

\* the string arguments of a field declaration: target model, inverse field,
\* the parts of a related path
DeclarationNames(assign) ==
    UNION {IF assign.args[i].k = "Constant" THEN {assign.args[i].value} ELSE {} :
            i \in 1..Len(assign.args)}
    \cup UNION {IF kw = "related" THEN Range(related_parts(assign.keywords[kw]))
                ELSE IF assign.keywords[kw].k = "Constant"
                THEN {assign.keywords[kw].value} ELSE {} :
                kw \in DOMAIN assign.keywords}

\* name is referenced somewhere in the source file: in a method body, in a
\* decorator argument, or in the arguments of a field declaration
ReferencedInSource(file, name) ==
    \E c \in 1..Len(file.classes) :
        \/ \E i \in 1..Len(file.classes[c].funcs) :
                Mentions(file.classes[c].funcs[i], name)
        \/ \E i \in 1..Len(file.classes[c].assigns) :
                name \in DeclarationNames(file.classes[c].assigns[i])

\* name is referenced by an element of a view: its name, the names of its
\* sub-view, or one of its attribute expressions
ReferencedByElement(element, name) ==
    \/ element.name = name
    \/ element.sub.k = "sub" /\ name \in Range(element.sub.fields)
    \/ \E a \in DOMAIN element.attrs :
        element.attrs[a].parses /\ Mentions(element.attrs[a].tree, name)

\* name is referenced somewhere in the declarative file
ReferencedInRecords(file, name) ==
    \E i \in 1..Len(file.records) :
        LET record == file.records[i] IN
        \/ /\ record.arch.k = "arch"
           /\ \/ \E j \in 1..Len(record.arch.fields) :
                    ReferencedByElement(record.arch.fields[j], name)
              \/ \E j \in 1..Len(record.arch.buttons) :
                    ReferencedByElement(record.arch.buttons[j], name)
        \/ /\ record.code.k = "source"
           /\ record.code.parses
           /\ Mentions(record.code.tree, name)

Referenced(name) ==
    \/ \E i \in 1..Len(python_file_paths) :
            ReferencedInSource(python_file_paths[i], name)
    \/ \E i \in 1..Len(xml_file_paths) :
            ReferencedInRecords(xml_file_paths[i], name)

\* C2: once analyze() and report() have run, every declared field of every
\* registered model whose name no method body, decorator argument, declaration
\* or declarative record mentions has score 100 and is listed by report(),
\* whatever the scores of the model's methods are.
C2_UnreferencedFieldListed ==
    pc = "reported" =>
        \A m \in DOMAIN definitions_map :
            \A f \in DOMAIN definitions_map[m].fields :
                ~Referenced(f) =>
                    /\ definitions_map[m].fields[f].unused_percentage = 100
                    /\ <<m, "field", f>> \in reported

\* the model under which the usage pass looks up the methods of a class, None
\* for a class it skips
ModelOfClass(class_def) ==
    LET r == CHOOSE r \in _initialize_model(class_def, definitions_map, map_order) : TRUE
    IN IF r.status = "model" THEN r.model.name ELSE None

\* the functions of the classes of model_name in the source files
Methods(model_name) ==
    UNION {
        UNION {Range(python_file_paths[i].classes[c].funcs) :
                c \in {d \in 1..Len(python_file_paths[i].classes) :
                        ModelOfClass(python_file_paths[i].classes[d]) = model_name}}
        : i \in 1..Len(python_file_paths)}

\* the function contains the access self.f
SelfAccess(func, f) ==
    \E n \in Subnodes(func) : n = Attribute(Name("self"), f)

\* the function contains the chained access self.r.e
ChainedAccess(func, r, e) ==
    \E n \in Subnodes(func) : n = Attribute(Attribute(Name("self"), r), e)

\* the function contains the call self.r.mapped('a')
MappedAccess(func, r, a) ==
    \E n \in Subnodes(func) :
        /\ n.k = "Call"
        /\ n.func = Attribute(Attribute(Name("self"), r), "mapped")
        /\ n.args = <<Constant(a)>>

FieldScore(m, f) == definitions_map[m].fields[f].unused_percentage

\* the relational fields of model A whose target is the registered model B
RelationsTo(A, B) ==
    {r \in DOMAIN definitions_map[A].fields :
        /\ definitions_map[A].fields[r].attributes.relational
        /\ definitions_map[A].fields[r].attributes.comodel_name = B}

\* P declares f, C names P as a direct parent and declares no f, and a method
\* of C contains self.f
C3_Case(P, C, f) ==
    /\ P \in Range(definitions_map[C].inherited_models)
    /\ f \in DOMAIN definitions_map[P].fields
    /\ f \notin DOMAIN definitions_map[C].fields
    /\ \E func \in Methods(C) : SelfAccess(func, f)

\* C3: if model P declares field f, model C names P as a direct parent and
\* declares no field f, and a method of C contains the access self.f, then
\* after analyze() the field f of P has score 0.
C3_InheritedFieldUsed ==
    pc \in {"done", "reported"} =>
        \A C \in DOMAIN definitions_map, P \in DOMAIN definitions_map :
            \A f \in DOMAIN definitions_map[P].fields :
                C3_Case(P, C, f) => FieldScore(P, f) = 0

\* A declares the relational field r with target B, B declares e, and a method
\* of A contains self.r.e
C4_Case(A, r, B, e) ==
    /\ r \in RelationsTo(A, B)
    /\ e \in DOMAIN definitions_map[B].fields
    /\ \E func \in Methods(A) : ChainedAccess(func, r, e)

\* C4: if model A declares a relational field r with target model B, B declares
\* field e, and a method of A contains the chained access self.r.e, then after
\* analyze() the field r of A and the field e of B both have score 0.
C4_ChainedAccessUsed ==
    pc \in {"done", "reported"} =>
        \A A \in DOMAIN definitions_map, B \in DOMAIN definitions_map :
            \A r \in DOMAIN definitions_map[A].fields :
                \A e \in DOMAIN definitions_map[B].fields :
                    C4_Case(A, r, B, e) =>
                        FieldScore(A, r) = 0 /\ FieldScore(B, e) = 0

\* r is a relational field of O with target L, L declares a, and a method of O
\* contains self.r.mapped('a')
C5_Case(O, r, L, a) ==
    /\ r \in RelationsTo(O, L)
    /\ a \in DOMAIN definitions_map[L].fields
    /\ \E func \in Methods(O) : MappedAccess(func, r, a)

\* C5: if a method of model O contains self.r.mapped('a'), r being a relational
\* field of O with target model L and a a field that L declares, then after
\* analyze() the field a of L and the field r of O both have score 0.
C5_MappedLiteralUsed ==
    pc \in {"done", "reported"} =>
        \A O \in DOMAIN definitions_map, L \in DOMAIN definitions_map :
            \A r \in DOMAIN definitions_map[O].fields :
                \A a \in DOMAIN definitions_map[L].fields :
                    C5_Case(O, r, L, a) =>
                        FieldScore(L, a) = 0 /\ FieldScore(O, r) = 0

\* a UI-view record of a declarative file has target model M and, in its view
\* body, a field element named f
ViewShows(M, f) ==
    \E i \in 1..Len(xml_file_paths) :
        \E j \in 1..Len(xml_file_paths[i].records) :
            LET record == xml_file_paths[i].records[j] IN
            /\ record.model = "ir.ui.view"
            /\ _get_xml_record_model(record) = M
            /\ record.arch.k = "arch"
            /\ \E k \in 1..Len(record.arch.fields) : record.arch.fields[k].name = f

\* C6: if a UI-view record whose target model is the registered model M has in
\* its view body a field element named after a field f that M declares, then
\* once the declarative phase is over f has score 0, whether or not a source
\* method references it.
C6_ViewFieldUsed ==
    pc \in {"methods", "done", "reported"} =>
        \A M \in DOMAIN definitions_map :
            \A f \in DOMAIN definitions_map[M].fields :
                ViewShows(M, f) => FieldScore(M, f) = 0

\* C6 happens: the declarative phase has just ended, no method has been scanned
\* yet, and a field that only a view shows has score 0
C6_Witness ==
    /\ pc = "methods" /\ idx = 0
    /\ \E M \in DOMAIN definitions_map :
        \E f \in DOMAIN definitions_map[M].fields :
            /\ ViewShows(M, f)
            /\ FieldScore(M, f) = 0
            /\ \A i \in 1..Len(python_file_paths) :
                    ~ReferencedInSource(python_file_paths[i], f)

\* a class of model A declares field x with the keyword related = "r.e" and no
\* target model, r being a relational field of A with target B and e a field of B
C7_Case(A, x, r, B, e) ==
    /\ x \in DOMAIN definitions_map[A].fields
    /\ r \in RelationsTo(A, B)
    /\ e \in DOMAIN definitions_map[B].fields
    /\ \E i \in 1..Len(python_file_paths) :
        \E c \in 1..Len(python_file_paths[i].classes) :
            /\ ModelOfClass(python_file_paths[i].classes[c]) = A
            /\ <<"declare", i, "ok">> \in Range(log)
            /\ \E a \in 1..Len(python_file_paths[i].classes[c].assigns) :
                LET assign == python_file_paths[i].classes[c].assigns[a] IN
                /\ assign.id = x
                /\ assign.args = <<>>
                /\ DOMAIN assign.keywords = {"related"}
                /\ related_parts(assign.keywords["related"]) = <<r, e>>

\* C7: for every field x declared, with whatever field type, with the keyword
\* related = "r.e" and no target model, r being a relational field of x's model
\* with target model B and e a field of B: right after the relationship
\* resolution, before any usage pass, the field r of x's model and the field e
\* of B both have score 0.
C7_RelatedPathUsed ==
    (log # <<>> /\ log[Len(log)] = <<"resolve", 1, "ok">>) =>
        \A A \in DOMAIN definitions_map, B \in DOMAIN definitions_map :
            \A x \in DOMAIN definitions_map[A].fields :
                \A r \in DOMAIN definitions_map[A].fields :
                    \A e \in DOMAIN definitions_map[B].fields :
                        C7_Case(A, x, r, B, e) =>
                            FieldScore(A, r) = 0 /\ FieldScore(B, e) = 0

\* the steps of analyze() on the files of the run, in order
ExpectedSteps ==
    [i \in 1..Len(python_file_paths) |-> <<"declare", i>>]
    \o <<<<"resolve", 1>>>>
    \o [i \in 1..Len(xml_file_paths) |-> <<"xml", i>>]
    \o [i \in 1..Len(python_file_paths) |-> <<"methods", i>>]

\* C8: analyze() runs its four phases in strict order: declaration extraction
\* over every source file, one relationship resolution, usage extraction over
\* every declarative file, usage extraction over the methods of every source
\* file.  The steps taken are at every moment a prefix of that order, a run
\* that returns has taken them all, and while only declaration steps have been
\* taken every usage score is 100.
C8_PhasesInOrder ==
    /\ Len(log) <= Len(ExpectedSteps)
    /\ \A j \in 1..Len(log) : <<log[j][1], log[j][2]>> = ExpectedSteps[j]
    /\ pc \in {"done", "reported"} => Len(log) = Len(ExpectedSteps)
    /\ (\A j \in 1..Len(log) : log[j][1] = "declare") =>
            \A entry \in Scored(definitions_map) : Score(definitions_map, entry) = 100

\* C8 happens: a run over two source files and a declarative file has returned
\* and has changed a score
C8_Witness ==
    /\ pc = "done"
    /\ Len(python_file_paths) >= 2 /\ Len(xml_file_paths) >= 1
    /\ Len(log) = Len(ExpectedSteps)
    /\ \E entry \in Scored(definitions_map) : Score(definitions_map, entry) = 0

\* C9: analyze() finishes on every finite set of declarations, also when two
\* models name each other as parent and when related paths refer to each other:
\* ancestor lookup, related-path resolution and downward method propagation all
\* end, so that no run of analyze() is ended by a recursion without end (which
\* the interpreter reports as RecursionError).
C9_RecursionEnds ==
    error # "RecursionError"

\* C10: an input that cannot be parsed never aborts the run: a source file, a
\* declarative file, a view attribute expression or the code of an automation
\* record (ir.actions.server, ir.cron) that does not parse is skipped, and
\* analyze() goes on with the remaining files and fragments and returns.
C10_UnparseableSkipped ==
    ~(pc = "aborted" /\ error = "SyntaxError")

\* the record names no model of the registry: its target is empty or unknown
UnknownTarget(record_node, dm) ==
    _get_xml_record_model(record_node) \notin DOMAIN dm

\* the file without the records whose target is no model of the registry
WithoutUnknownTargets(file, dm) ==
    [file EXCEPT !.records = SelectSeq(@, LAMBDA record_node :
                                            ~UnknownTarget(record_node, dm))]

\* C11: processing a declarative record (view or automation) whose target model
\* name is empty or is no key of the registry changes no usage score and adds
\* no model: a declarative file leaves the registry, and ends, exactly as the
\* same file without those records does, and the keys of the registry are the
\* same before and after.  The empty name is no key of the registry.
C11_UnknownTargetSkipped ==
    [][pc = "xml" =>
        LET file == xml_file_paths[idx + 1]
            rest == _fill_fields_from_xml_file(
                        WithoutUnknownTargets(file, definitions_map), definitions_map)
        IN /\ "" \notin DOMAIN definitions_map
           /\ definitions_map' = rest.dm
           /\ DOMAIN definitions_map' = DOMAIN definitions_map
           /\ error' = IF rest.raised \in {None, "ParseError"} THEN error ELSE rest.raised
           /\ rest.raised = None => log'[Len(log')][3] = "ok"]_vars

\* C11 happens: a declarative file with a view of an unknown model showing
\* field e has been processed, and partner's field e is still unused
C11_Witness ==
    /\ \E i \in 1..Len(log) :
          /\ log[i][1] = "xml" /\ log[i][3] = "ok"
          /\ \E k \in 1..Len(xml_file_paths[log[i][2]].records) :
                LET record_node == xml_file_paths[log[i][2]].records[k]
                IN /\ UnknownTarget(record_node, definitions_map)
                   /\ record_node.arch.k # "None"
                   /\ \E j \in 1..Len(record_node.arch.fields) :
                         record_node.arch.fields[j].name = "e"
    /\ "B" \in DOMAIN definitions_map
    /\ "e" \in DOMAIN definitions_map["B"].fields
    /\ definitions_map["B"].fields["e"].unused_percentage = 100

\* the merge made by the step, when the step is a merge
Merge == log'[1]

\* C12: merging a ModelValue into itself (m |= m) leaves the usage score of
\* every one of its fields and methods unchanged, whatever the scores are: the
\* step changes no score of the registry and adds and removes no entry.
C12_SelfMergeKeepsScores ==
    [][log' # log /\ Merge.itself =>
        /\ error' = None
        /\ Scored(definitions_map') = Scored(definitions_map)
        /\ \A entry \in Scored(definitions_map) :
              Score(definitions_map', entry) = Score(definitions_map, entry)]_vars

\* C12 happens: a model was merged into itself that has a field used in part
\* and a method used in part; the method now holds its body twice
C12_Witness ==
    /\ pc = "merged" /\ log[1].itself
    /\ LET model == definitions_map[log[1].self]
       IN /\ \E f \in DOMAIN model.fields : model.fields[f].unused_percentage \in 1..99
          /\ \E m \in DOMAIN model.methods :
                /\ model.methods[m].unused_percentage \in 1..99
                /\ Len(model.methods[m].function_definitions) = 2

\* C13: when two declarations of the same model name both declare method m
\* and are merged, the single entry of the registry for m has the lower of the
\* two scores, the function bodies of both declarations (those of the
\* registered one first) and the locations of both; a method that only one of
\* them declares is kept as it is, also when the model is registered first.
C13_MethodsMerged ==
    [][log' # log /\ Merge.call = "ModelValue.__ior__" /\ ~Merge.itself
            /\ isinstance(Merge.other, "ModelValue") =>
        LET other == Merge.other
            new == definitions_map'[Merge.self]
        IN IF Merge.self \notin DOMAIN definitions_map
           THEN new.methods = other.methods
           ELSE LET self == definitions_map[Merge.self] IN
                /\ DOMAIN new.methods = DOMAIN self.methods \cup DOMAIN other.methods
                /\ \A m \in DOMAIN new.methods :
                    IF m \in DOMAIN self.methods /\ m \in DOMAIN other.methods
                    THEN /\ new.methods[m].unused_percentage
                                \in {self.methods[m].unused_percentage,
                                     other.methods[m].unused_percentage}
                         /\ new.methods[m].unused_percentage
                                <= self.methods[m].unused_percentage
                         /\ new.methods[m].unused_percentage
                                <= other.methods[m].unused_percentage
                         /\ new.methods[m].function_definitions
                                = self.methods[m].function_definitions
                                    \o other.methods[m].function_definitions
                         /\ new.methods[m].definition_paths
                                = self.methods[m].definition_paths
                                    \cup other.methods[m].definition_paths
                         /\ new.methods[m].name = m
                    ELSE IF m \in DOMAIN self.methods
                    THEN new.methods[m] = self.methods[m]
                    ELSE new.methods[m] = other.methods[m]]_vars

\* C13 happens: a declaration whose methods were used in part was merged into
\* a registered model: one common method has the score of the declaration,
\* another a lower one, and both hold two bodies
C13_Witness ==
    /\ pc = "merged" /\ log[1].call = "ModelValue.__ior__" /\ ~log[1].itself
    /\ isinstance(log[1].other, "ModelValue")
    /\ LET other == log[1].other
           new == definitions_map[log[1].self]
       IN /\ \E m \in DOMAIN other.methods :
                /\ Len(new.methods[m].function_definitions) = 2
                /\ new.methods[m].unused_percentage < other.methods[m].unused_percentage
          /\ \E m \in DOMAIN other.methods :
                /\ Len(new.methods[m].function_definitions) = 2
                /\ new.methods[m].unused_percentage = other.methods[m].unused_percentage
                /\ other.methods[m].unused_percentage \in 1..99

\* C18: merging a value of an incompatible kind (an object that is no
\* ModelValue into a ModelValue, an object that is no MethodValue into a
\* MethodValue) ends in a raised TypeError and leaves the target, and with it
\* the registry, as it was before: fields, methods, bodies and scores.
C18_KindMismatchRaises ==
    [][(/\ log' # log
        /\ \/ /\ Merge.call = "ModelValue.__ior__"
              /\ ~isinstance(Merge.other, "ModelValue")
           \/ /\ Merge.call = "MethodValue.__ior__"
              /\ ~isinstance(Merge.other, "MethodValue"))
        => (/\ error' = "TypeError"
            /\ definitions_map' = definitions_map)]_vars

\* C18 happens: the merge of a field into a method that was used in part has
\* raised
C18_Witness ==
    /\ pc = "merged" /\ error = "TypeError"
    /\ log[1].call = "MethodValue.__ior__"
    /\ isinstance(log[1].other, "FieldValue")
    /\ definitions_map[log[1].self[1]].methods[log[1].self[2]].unused_percentage \in 1..99

\* C14: after any sequence of class declarations of the declaration phase, in
\* any file order and with re-declarations merged, no model of the registry
\* has its own name among its named parents, and every named parent of a model
\* is a key of the registry.  It holds in every state of analyze().
C14_ParentsRegistered ==
    \A M \in DOMAIN definitions_map :
        /\ M \notin Range(definitions_map[M].inherited_models)
        /\ Range(definitions_map[M].inherited_models) \subseteq DOMAIN definitions_map

\* C14 happens: declaration extraction is over for a project with selfext.py,
\* whose class names B itself and D as parents of B, merged with partner.py's
\* B; D is the one parent of B and is registered
C14_Witness ==
    /\ pc = "resolve"
    /\ \E i \in 1..Len(python_file_paths) : python_file_paths[i] = py_selfext
    /\ "B" \in DOMAIN definitions_map /\ "D" \in DOMAIN definitions_map
    /\ Range(definitions_map["B"].inherited_models) = {"D"}
    /\ "h" \in DOMAIN definitions_map["B"].fields
    /\ "e" \in DOMAIN definitions_map["B"].fields

\* the relationship-resolution pass has been made and has returned
Resolved == \E j \in 1..Len(log) : log[j][1] = "resolve" /\ log[j][3] = "ok"

\* the named parents and the named children of every model of the registry dm
LinksOf(dm) ==
    [M \in DOMAIN dm |->
        [inherited_models |-> Range(dm[M].inherited_models),
         child_models |-> Range(dm[M].child_models)]]

\* the source files in the order perm
InOrder(perm) == [i \in 1..Len(python_file_paths) |-> python_file_paths[perm[i]]]

\* C15: after the relationship-resolution pass, C is a named child of P if and
\* only if P is a named parent of C; every parent link and every child link of
\* a registered model refers to the object that the registry holds under that
\* name, the one the declarations were merged into; and the links are those
\* that every other order of the source files leaves.
C15_LinksResolved ==
    Resolved =>
        /\ \A P, C \in DOMAIN definitions_map :
              C \in Range(definitions_map[P].child_models)
                <=> P \in Range(definitions_map[C].inherited_models)
        /\ DOMAIN references.registry = DOMAIN definitions_map
        /\ \A M \in DOMAIN definitions_map :
              LET object == references.heap[references.registry[M]] IN
              /\ object.name = M
              /\ DOMAIN object.inherited_models = Range(definitions_map[M].inherited_models)
              /\ DOMAIN object.child_models = Range(definitions_map[M].child_models)
              /\ \A P \in DOMAIN object.inherited_models :
                    /\ P \in DOMAIN references.registry
                    /\ object.inherited_models[P] = references.registry[P]
              /\ \A C \in DOMAIN object.child_models :
                    /\ C \in DOMAIN references.registry
                    /\ object.child_models[C] = references.registry[C]
        /\ log[Len(log)][1] = "resolve" =>
              \A perm \in Perms(1..Len(python_file_paths)) :
                \A s \in declared(InOrder(perm), {[dm |-> EmptyDict, order |-> <<>>,
                                                    raised |-> FALSE]}) :
                    LinksOf(_fill_definitions_map(s.dm, s.order).dm)
                        = LinksOf(definitions_map)

\* C15 happens: the pass is over for child.py declared before partner.py, so
\* that the parent B of C was a placeholder when C was declared; B holds its
\* fields and C is its child
C15_Witness ==
    /\ Resolved
    /\ python_file_paths = <<py_child, py_partner>>
    /\ references.heap[references.registry["C"]].inherited_models
            = ("B" :> references.registry["B"])
    /\ references.heap[references.registry["B"]].child_models
            = ("C" :> references.registry["C"])
    /\ references.registry["B"] < references.registry["C"]
    /\ DOMAIN definitions_map["B"].fields = {"e", "g"}

\* the primary-name assignment of the class is an expression, no literal
ComputedName(class_def) == class_def.name_node.k \notin {"Constant", "None"}

\* the source file without the classes whose primary name is computed
WithoutComputedNames(file) ==
    [file EXCEPT !.classes = SelectSeq(@, LAMBDA class_def : ~ComputedName(class_def))]

\* C16: a class whose primary-name assignment is a computed expression adds no
\* model, no field and no method to the registry and none of its declarations
\* is scored, whether or not the class also has a literal extends assignment:
\* declaration extraction and the method scan leave the registry as they
\* leave it for the same file without those classes.
C16_ComputedNameIgnored ==
    [][/\ pc = "declare" =>
            \E out \in _initialize_definitions_map(
                            WithoutComputedNames(python_file_paths[idx + 1]),
                            definitions_map, map_order) :
                definitions_map' = out.dm
       /\ pc = "methods" =>
            \E out \in _fill_field_usage_in_methods(
                            WithoutComputedNames(python_file_paths[idx + 1]),
                            definitions_map, map_order) :
                definitions_map' = out.dm]_vars

\* the class has no primary name and an extends assignment that is a literal
\* name or a list of one or more literal names
LiteralExtension(class_def) ==
    /\ class_def.name_node.k = "None"
    /\ \/ class_def.inherit_node.k = "Constant"
       \/ /\ class_def.inherit_node.k = "List"
          /\ class_def.inherit_node.elts # <<>>
          /\ \A i \in 1..Len(class_def.inherit_node.elts) :
                class_def.inherit_node.elts[i].k = "Constant"

\* C17: a class is skipped as a non-model only when it has neither a (literal)
\* primary name nor an extends assignment; a class without primary name whose
\* extends assignment is a literal name or a list of one or more literal names
\* is an in-place extension: once its file is declared, each field and method
\* it declares is an entry of a model it names.
C17_ExtensionMerged ==
    [][pc = "declare" /\ log'[Len(log')][3] = "ok" =>
        LET file == python_file_paths[idx + 1] IN
        \A i \in 1..Len(file.classes) :
            LET class_def == file.classes[i]
                named == inherited_model_names(class_def)
            IN /\ (\E r \in _initialize_model(class_def, definitions_map, map_order) :
                        r.status = "none")
                    => /\ class_def.name_node.k # "Constant"
                       /\ class_def.inherit_node.k = "None"
               /\ LiteralExtension(class_def) =>
                    /\ \A f \in DOMAIN _find_fields(class_def, file.path) :
                          \E P \in named \cap DOMAIN definitions_map' :
                             f \in DOMAIN definitions_map'[P].fields
                    /\ \A m \in DOMAIN _find_methods(class_def, file.path) :
                          \E P \in named \cap DOMAIN definitions_map' :
                             m \in DOMAIN definitions_map'[P].methods]_vars

\* a view record whose target is model M has a button named m
ViewButton(M, m) ==
    \E i \in 1..Len(xml_file_paths) :
        \E j \in 1..Len(xml_file_paths[i].records) :
            LET record == xml_file_paths[i].records[j] IN
            /\ record.model = "ir.ui.view"
            /\ _get_xml_record_model(record) = M
            /\ record.arch.k = "arch"
            /\ \E k \in 1..Len(record.arch.buttons) : record.arch.buttons[k].name = m

\* all the names declared in the registry
DeclaredNames ==
    UNION {DOMAIN definitions_map[M].fields \cup DOMAIN definitions_map[M].methods :
            M \in DOMAIN definitions_map}

\* C19: a usage recorded on model C for a field or method name that C does not
\* declare reduces the score of the declaration of that name on C's nearest
\* declaring ancestor, at any depth of the chain of named parents: when a
\* method of C accesses self.f, or a view of C has a button named m, then after
\* analyze() the entry that the lookup from C finds on an ancestor has score 0.
C19_AncestorUsed ==
    pc \in {"done", "reported"} =>
        \A C \in DOMAIN definitions_map : \A name \in DeclaredNames :
            /\ (/\ name \notin DOMAIN definitions_map[C].fields
                /\ \E func \in Methods(C) : SelfAccess(func, name))
                => LET found == _get_field_definition(definitions_map, C, name)
                   IN found.status = "found" => FieldScore(found.owner, name) = 0
            /\ (/\ name \notin DOMAIN definitions_map[C].methods
                /\ ViewButton(C, name))
                => LET found == _get_method_definition(definitions_map, C, name)
                   IN found.status = "found" =>
                        definitions_map[found.owner].methods[name].unused_percentage = 0

\* the name is bound on the stack of the collector
Bound(st, name) == \E i \in 1..Len(st.stack) : st.stack[i][2] = <<name>>

\* C20: in every walk, whatever the binding stack holds (inside a loop, after
\* earlier statements, with default bindings of the caller), an access or a
\* chained access whose root name is bound nowhere on the stack records no
\* field and no method on any model: the visit records what the visit of the
\* same statement without the access records.
C20_UnboundRootIgnored ==
    [][(/\ calls' = calls + 1
        /\ log'[1].wrap \in Wraps
        /\ ~Bound(collector, "foo"))
        => LET without == visit(definitions_map, collector, Wrapped(log'[1].wrap, <<>>))
           IN /\ collector'.used_fields_by_model = without.used_fields_by_model
              /\ collector'.used_methods_by_model = without.used_methods_by_model]_vars

\* the comodel of the field name that model_name has or inherits, None when
\* there is no such field or it is not relational
Comodel(dm, model_name, name) ==
    LET found == _get_field_info(dm, model_name, name)
    IN IF found.status = "found"
       THEN dm[found.owner].fields[name].attributes.comodel_name
       ELSE None

\* node is b.r.f where b is bound, r is a relational field of the model of b
\* and f is a non-relational field of the target model of r
RelationHop(dm, st, node) ==
    /\ node.k = "Attribute" /\ node.value.k = "Attribute"
    /\ node.value.value.k = "Name"
    /\ LET O == _get_context_for_name(st.stack, node.value.value.id)
       IN /\ Truthy(O)
          /\ LET L == Comodel(dm, O, node.value.attr)
             IN /\ Truthy(L)
                /\ _get_field_info(dm, L, node.attr).status = "found"
                /\ ~Truthy(Comodel(dm, L, node.attr))

\* C21: the walk of a chained access b.r.f, with b a bound name, r a
\* relational field and f a non-relational field of the target model of r,
\* leaves the binding stack exactly as it was before the expression.
C21_HopRetracted ==
    [][(/\ calls' = calls + 1
        /\ log'[1].wrap = "chain"
        /\ RelationHop(definitions_map, collector, log'[1].access))
        => (collector'.stack = collector.stack)]_vars

\* every marker binding of the stack after was at its place in the stack before
NoNewMarker(before, after) ==
    \A i \in 1..Len(after) :
        after[i][2] \in Markers => (i <= Len(before) /\ before[i] = after[i])

\* C22: a marker binding (env_call, mapped_call) is consumed by the call it was
\* created for: once the visit of a call has returned, no marker created
\* inside the call expression remains on the binding stack.
C22_MarkerConsumed ==
    [][(calls' = calls + 1 /\ log'[1].wrap = "call")
        => NoNewMarker(collector.stack, collector'.stack)]_vars

\* the names recorded for the model in a usage dict
Used(usage, model_name) ==
    IF model_name \in DOMAIN usage.s THEN usage.s[model_name] ELSE {}

\* node is X.mapped('r').mapped('g') with X a name bound to a model that has
\* the relational field r
MappedChain(dm, st, node) ==
    /\ node.k = "Call" /\ node.func.k = "Attribute" /\ node.func.attr = "mapped"
    /\ node.args # <<>>
    /\ node.func.value.k = "Call" /\ node.func.value.func.k = "Attribute"
    /\ node.func.value.func.attr = "mapped"
    /\ node.func.value.func.value.k = "Name"
    /\ LET O == _get_context_for_name(st.stack, node.func.value.func.value.id)
       IN Truthy(O) /\ Truthy(Comodel(dm, O, node.func.value.args[1].value))

\* C24: for a chained bulk call X.mapped('r').mapped('g'), X bound to model O
\* and r a relational field of O with target L, the name g is recorded as a
\* used field of L and not of O.
C24_MappedChainResolved ==
    [][(/\ calls' = calls + 1
        /\ log'[1].wrap = "call"
        /\ MappedChain(definitions_map, collector, log'[1].access))
        => LET node == log'[1].access
               O == _get_context_for_name(collector.stack,
                                          node.func.value.func.value.id)
               L == Comodel(definitions_map, O, node.func.value.args[1].value)
               g == node.args[1].value
           IN /\ g \in Used(collector'.used_fields_by_model, L)
              /\ (L # O /\ g \notin Used(collector.used_fields_by_model, O))
                    => g \notin Used(collector'.used_fields_by_model, O)]_vars

\* C23: after the visit of a lambda expression the binding stack is exactly
\* what it was before the lambda, whatever the body of the lambda traverses.
C23_LambdaScoped ==
    [][(calls' = calls + 1 /\ log'[1].wrap = "lambda")
        => (collector'.stack = collector.stack)]_vars

\* C25: after the visit of a for loop and after the visit of a comprehension
\* the binding stack has exactly the depth and the contents it had before the
\* construct.
C25_LoopScoped ==
    [][(calls' = calls + 1 /\ log'[1].wrap = "scoped")
        => (collector'.stack = collector.stack)]_vars

\* the stacks a collector of the walks is created with: the default bindings
\* of the caller, if any, followed by the binding of self
SeedStacks ==
    UNION {{FieldCollector(model_name, <<>>).stack,
            FieldCollector(model_name, code_context(model_name)).stack} :
           model_name \in {"A", "B"}}

IsPrefix(seed, stack) ==
    Len(seed) <= Len(stack) /\ SubSeq(stack, 1, Len(seed)) = seed

\* C26: at every point of every walk the bindings the collector was created
\* with are still the bottom entries of the binding stack, unchanged and in
\* the same order, so the stack is never empty: no visit removes or changes
\* them.
C26_SeedsKept ==
    [][\A seed \in SeedStacks :
        IsPrefix(seed, collector.stack) => IsPrefix(seed, collector'.stack)]_vars

\* C27: after an assignment x = self.env['m'].search(...) (or browse, create)
\* with a literal model name m, a later access x.f in the rest of the scope,
\* also after a loop that holds the assignment, records f as used on m when m
\* declares f.
C27_AssignedNameBound ==
    [][(/\ calls' = calls + 1
        /\ log'[1].wrap = "scope"
        /\ log'[1].field \in DOMAIN definitions_map[log'[1].model].fields)
        => (log'[1].field \in
                Used(collector'.used_fields_by_model, log'[1].model))]_vars

\* the names an attribute expression references: bare names other than self
\* and attributes of self
ExpressionNames(tree) ==
    {n.id : n \in {d \in Subnodes(tree) : d.k = "Name" /\ d.id # "self"}}
    \cup {n.attr : n \in {d \in Subnodes(tree) :
                            d.k = "Attribute" /\ d.value = Name("self")}}

\* the names referenced by the invisible, readonly and required expressions
\* of the element
ElementNames(element) ==
    UNION {IF element.attrs[a].parses THEN ExpressionNames(element.attrs[a].tree)
           ELSE {} : a \in DOMAIN element.attrs}

\* C28: for the first field element of each name in a view for a registered
\* model M, every field declared on M that the element's invisible, readonly
\* or required expression references, as a bare name or as an attribute of
\* self, has score 0 once the declarative phase is over, also when the
\* element's own name was mentioned in the expression of an earlier element.
C28_AttributeFieldsUsed ==
    pc \in {"methods", "done", "reported"} =>
        \A i \in 1..Len(xml_file_paths) :
            \A j \in 1..Len(xml_file_paths[i].records) :
                LET record == xml_file_paths[i].records[j]
                    M == _get_xml_record_model(record)
                IN (/\ record.model = "ir.ui.view"
                    /\ M \in DOMAIN definitions_map
                    /\ record.arch.k = "arch")
                    => \A k \in 1..Len(record.arch.fields) :
                        (\A before \in 1..(k - 1) :
                            record.arch.fields[before].name # record.arch.fields[k].name)
                        => \A f \in ElementNames(record.arch.fields[k])
                                    \cap DOMAIN definitions_map[M].fields :
                                FieldScore(M, f) = 0

\* the models reachable from the model through named parents
RECURSIVE Ancestors(_, _, _)
Ancestors(dm, names, fuel) ==
    LET parents == UNION {IF n \in DOMAIN dm THEN Range(dm[n].inherited_models)
                          ELSE {} : n \in names}
    IN IF fuel = 0 \/ parents \subseteq names THEN names \cup parents
       ELSE Ancestors(dm, names \cup parents, fuel - 1)

\* the target model of every field of the registry
Targets(dm) ==
    [m \in DOMAIN dm |->
        [f \in DOMAIN dm[m].fields |-> dm[m].fields[f].attributes.comodel_name]]

\* every relational field for which an ancestor of its model has a field of
\* the same name with a target model has a target model
CopiedDown(dm) ==
    \A m \in DOMAIN dm :
        \A f \in DOMAIN dm[m].fields :
            (/\ dm[m].fields[f].attributes.relational
             /\ \E a \in Ancestors(dm, Range(dm[m].inherited_models),
                                   Cardinality(DOMAIN dm)) \cap DOMAIN dm :
                    /\ f \in DOMAIN dm[a].fields
                    /\ Truthy(dm[a].fields[f].attributes.comodel_name))
            => Truthy(dm[m].fields[f].attributes.comodel_name)

\* C29: after a resolution pass that returned, every relational field declared
\* without a target model for which an ancestor of its model, at any depth,
\* has a field of the same name with a target model has a target model, and
\* the targets are those that the pass gives for every other order of
\* iteration of the registry.
C29_TargetCopiedDown ==
    [][(pc = "resolve" /\ pc' # "aborted")
        => (/\ CopiedDown(definitions_map')
            /\ \A order \in Perms(Range(map_order)) :
                LET other == _fill_definitions_map(definitions_map, order)
                IN ~other.raised => Targets(other.dm) = Targets(definitions_map'))]_vars

\* the models reachable from the model through named children
RECURSIVE Descendants(_, _, _)
Descendants(dm, names, fuel) ==
    LET kids == UNION {IF n \in DOMAIN dm THEN Range(dm[n].child_models)
                       ELSE {} : n \in names}
    IN IF fuel = 0 \/ kids \subseteq names THEN names \cup kids
       ELSE Descendants(dm, names \cup kids, fuel - 1)

\* the step is the call method_used(m, c) on model M
IsMethodUsed(M, m, c) ==
    /\ calls' = calls + 1
    /\ LET r == method_used([dm |-> definitions_map, raised |-> FALSE], M, m, c)
       IN /\ definitions_map' = r.dm
          /\ error' = IF r.raised THEN "RecursionError" ELSE None

====
